---- MODULE Spec2Model ----
(***************************************************************************)
(* Model of bababoi.py: the Crowdin export loader (load_crowdin_data), its *)
(* derived metrics, the temporal extractor (create_temporal_data) and the  *)
(* control flow of main up to the dashboard tabs.                          *)
(*                                                                         *)
(* JSON values are tagged records, a Python dict is a function from its    *)
(* present keys together with the order the keys were written in, and an   *)
(* exception is an explicit outcome of an operator.                        *)
(* Counts and their sums are held exactly; every float the program         *)
(* computes from them is an IEEE 754 binary64 value, rounded at each step. *)
(***************************************************************************)
EXTENDS Integers, Sequences, FiniteSets, TLC

(***************************************************************************)
(* Bounds of the model.                                                    *)
(***************************************************************************)
\* number of *.json paths the working directory may hold
MaxFiles == 2
\* largest count drawn for a field of a cumulativeStatistics object
MaxCount == 1
\* largest count per bucket drawn for the two-vector comparison inputs
MaxVec == 1
\* the largest count of one day of a temporal mapping
MaxDay == 1

(***************************************************************************)
(* JSON values as json.load returns them.                                  *)
(***************************************************************************)
JNull == [t |-> "null"]
JInt(n) == [t |-> "int", n |-> n]
JStr(s) == [t |-> "str", s |-> s]
JList(l) == [t |-> "list", l |-> l]

\* the elements of a set, one after the other
RECURSIVE SetToSeq(_)
SetToSeq(S) == IF S = {} THEN <<>>
               ELSE LET x == CHOOSE y \in S : TRUE IN <<x>> \o SetToSeq(S \ {x})

\* a JSON object is the dict json.load builds from it: the value of each key (o) and
\* the keys in the order the file writes them (keys), which is the order a loop over
\* the dict visits them in
JObjIn(keys, f) == [t |-> "obj", o |-> f, keys |-> keys]
\* an object whose keys any order may be written in: one fixed order is taken
JObj(f) == JObjIn(SetToSeq(DOMAIN f), f)

EmptyDict == [k \in {} |-> JNull]
EmptyObj == JObj(EmptyDict)

IsObj(v) == v.t = "obj"
IsInt(v) == v.t = "int"

\* bool(v) of a Python value
Truthy(v) ==
  CASE v.t = "null" -> FALSE
    [] v.t = "int" -> v.n # 0
    [] v.t = "str" -> v.s # ""
    [] v.t = "list" -> v.l # <<>>
    [] v.t = "obj" -> DOMAIN v.o # {}

\* d.get(k, default) of a dict d
Get(d, k, default) == IF k \in DOMAIN d.o THEN d.o[k] ELSE default

\* any(d.values()) of a dict d
AnyValues(d) == \E k \in DOMAIN d.o : Truthy(d.o[k])

(***************************************************************************)
(* File paths.  A path is the file name cut into pieces: a piece is ".",   *)
(* "json", or a text that holds no "." and does not begin with "json", so  *)
(* that '.json' occurs in the name exactly where "." is followed by        *)
(* "json".                                                                 *)
(***************************************************************************)
Stems == <<"a", "b", "c", "d">>
Path(stem, ext) == <<stem, ".", ext>>
JsonPaths == {Path(Stems[i], "json") : i \in 1..MaxFiles}
NotesPath == Path("notes", "txt")

\* glob.glob("*.json") lists the names that end in '.json' and do not start with a dot
MatchesGlob(p) ==
  /\ Len(p) >= 2 /\ p[Len(p) - 1] = "." /\ p[Len(p)] = "json"
  /\ p[1] # "."
\* file_path.replace('.json', ''): the name written out with every occurrence of
\* '.json' left out (Rest(i) is what the pieces from the i-th on leave)
StripJson(p) ==
  LET RECURSIVE Rest(_)
      Rest(i) ==
        IF i > Len(p) THEN ""
        ELSE IF i < Len(p) /\ p[i] = "." /\ p[i + 1] = "json" THEN Rest(i + 2)
        ELSE p[i] \o Rest(i + 1)
  IN Rest(1)

\* a file whose text json.load rejects, and a file holding the document v
BadFile == [parses |-> FALSE, json |-> JNull]
GoodFile(v) == [parses |-> TRUE, json |-> v]

(***************************************************************************)
(* load_crowdin_data: the body of the try block for one file.              *)
(* Every operator returns the rows it appended to all_data and whether it  *)
(* completed (ok) or raised; rows appended before a raise stay appended.   *)
(***************************************************************************)
Raised(rows) == [rows |-> rows, ok |-> FALSE]
Done(rows) == [rows |-> rows, ok |-> TRUE]

\* the record appended for one method block
FlatRecord(project_name, lang_name, lang_code, method, cumulative, temporal, date_range) ==
  LET postEdited == Get(cumulative, "postEdited", EmptyObj) IN
  [ project |-> project_name,
    language |-> lang_name,
    language_code |-> lang_code,
    method |-> method,
    approved_without_edit |-> Get(cumulative, "approvedWithoutEdit", JInt(0)),
    post_edited_0_5 |-> Get(postEdited, "0-5", JInt(0)),
    post_edited_6_10 |-> Get(postEdited, "6-10", JInt(0)),
    post_edited_11_15 |-> Get(postEdited, "11-15", JInt(0)),
    post_edited_other |-> Get(postEdited, "other", JInt(0)),
    weighted_units |-> Get(cumulative, "weightedUnits", JInt(0)),
    temporal_data |-> temporal,
    date_from |-> Get(date_range, "from", JNull),
    date_to |-> Get(date_range, "to", JNull) ]

\* the test that decides whether a method block is flattened
HasData(cumulative) == Truthy(cumulative) /\ AnyValues(cumulative)

\* a section that labels its record with the method of the first section
ProcessMethodAsAI(lang_data, key, method, project_name, lang_name, lang_code, date_range) ==
  LET m_data == Get(lang_data, key, EmptyObj) IN
  IF ~IsObj(m_data) THEN Raised(<<>>)
  ELSE
    LET cumulative == Get(m_data, "cumulativeStatistics", EmptyObj)
        temporal == Get(m_data, "temporalStatistics", EmptyObj)
    IN
    IF ~Truthy(cumulative) THEN Done(<<>>)
    ELSE IF ~IsObj(cumulative) THEN Raised(<<>>)
    ELSE IF ~HasData(cumulative) THEN Done(<<>>)
    ELSE IF ~IsObj(Get(cumulative, "postEdited", EmptyObj)) THEN Raised(<<>>)
    ELSE IF ~IsObj(date_range) THEN Raised(<<>>)
    ELSE Done(<<FlatRecord(project_name, lang_name, lang_code, "AI",
                           cumulative, temporal, date_range)>>)

\* one of the three "Process AI/MT/TM data" sections
ProcessMethod(lang_data, key, method, project_name, lang_name, lang_code, date_range) ==
  LET m_data == Get(lang_data, key, EmptyObj) IN
  IF ~IsObj(m_data) THEN Raised(<<>>)
  ELSE
    LET cumulative == Get(m_data, "cumulativeStatistics", EmptyObj)
        temporal == Get(m_data, "temporalStatistics", EmptyObj)
    IN
    IF ~Truthy(cumulative) THEN Done(<<>>)
    ELSE IF ~IsObj(cumulative) THEN Raised(<<>>)
    ELSE IF ~HasData(cumulative) THEN Done(<<>>)
    ELSE IF ~IsObj(Get(cumulative, "postEdited", EmptyObj)) THEN Raised(<<>>)
    ELSE IF ~IsObj(date_range) THEN Raised(<<>>)
    ELSE Done(<<FlatRecord(project_name, lang_name, lang_code, method,
                           cumulative, temporal, date_range)>>)

\* the body of the loop over the language blocks, for one block
ProcessLanguage(lang_data, project_name, date_range) ==
  IF ~IsObj(lang_data) THEN Raised(<<>>)
  ELSE
    LET language == Get(lang_data, "language", EmptyObj) IN
    IF ~IsObj(language) THEN Raised(<<>>)
    ELSE
      LET lang_name == Get(language, "name", JStr("Unknown"))
          lang_code == Get(language, "code", JStr("unknown"))
          ai == ProcessMethod(lang_data, "ai", "AI", project_name, lang_name, lang_code, date_range)
          mt == ProcessMethod(lang_data, "mt", "MT", project_name, lang_name, lang_code, date_range)
          tm == ProcessMethod(lang_data, "tm", "TM", project_name, lang_name, lang_code, date_range)
      IN
      IF ~ai.ok THEN Raised(ai.rows)
      ELSE IF ~mt.ok THEN Raised(ai.rows \o mt.rows)
      ELSE IF ~tm.ok THEN Raised(ai.rows \o mt.rows \o tm.rows)
      ELSE Done(ai.rows \o mt.rows \o tm.rows)

\* iter(v): the items a for loop over v visits, or a raise when v is not iterable;
\* a dict yields its keys, a string its characters (all of them strings)
Iterate(v) ==
  CASE v.t = "list" -> Done(v.l)
    [] v.t = "obj" -> Done([i \in 1..Len(v.keys) |-> JStr(v.keys[i])])
    [] v.t = "str" -> Done(IF v.s = "" THEN <<>> ELSE <<JStr(v.s)>>)
    [] OTHER -> Raised(<<>>)

RECURSIVE ProcessLanguages(_, _, _, _)
ProcessLanguages(items, i, project_name, date_range) ==
  IF i > Len(items) THEN Done(<<>>)
  ELSE
    LET r == ProcessLanguage(items[i], project_name, date_range) IN
    IF ~r.ok THEN Raised(r.rows)
    ELSE LET rest == ProcessLanguages(items, i + 1, project_name, date_range)
         IN [rows |-> r.rows \o rest.rows, ok |-> rest.ok]

\* the whole try block for the file at file_path
ProcessFileBody(file_path, file) ==
  IF ~file.parses THEN Raised(<<>>)
  ELSE
    LET data == file.json IN
    IF ~IsObj(data) THEN Raised(<<>>)
    ELSE
      LET project_name == Get(data, "name", JStr(StripJson(file_path)))
          date_range == Get(data, "dateRange", EmptyObj)
          it == Iterate(Get(data, "data", JList(<<>>)))
      IN
      IF ~it.ok THEN Raised(<<>>)
      ELSE ProcessLanguages(it.rows, 1, project_name, date_range)

(***************************************************************************)
(* Cells of the count columns and of the two totals: an integer held       *)
(* exactly (as a normalised rational), NaN, an infinity with its sign, or  *)
(* the Python str or list of a column of dtype object.                     *)
(***************************************************************************)
RECURSIVE GCD(_, _)
GCD(a, b) == IF b = 0 THEN a ELSE GCD(b, a % b)

Abs(n) == IF n < 0 THEN -n ELSE n
Sign(n) == IF n < 0 THEN -1 ELSE IF n > 0 THEN 1 ELSE 0

\* the number n/d, d # 0
Num(n, d) ==
  LET g == GCD(Abs(n), Abs(d)) IN
  [k |-> "num", num |-> (Sign(d) * n) \div g, den |-> Abs(d) \div g]
FNaN == [k |-> "nan", num |-> 0, den |-> 0]
FInf(s) == [k |-> "inf", num |-> s, den |-> 0]
\* a cell holding the JSON string, list or object v as a Python object
FPy(v) == [k |-> "py", num |-> 0, den |-> 0, v |-> v]


\* x + y for two cells of one row; two Python objects meet here only as two strings or
\* two lists (any other pair raises, see ArithmeticRaises), and are concatenated
FAdd(x, y) ==
  IF x.k = "nan" \/ y.k = "nan" THEN FNaN
  ELSE IF x.k = "py" /\ y.k = "py"
  THEN FPy(IF x.v.t = "str" THEN JStr(x.v.s \o y.v.s) ELSE JList(x.v.l \o y.v.l))
  ELSE IF x.k = "inf" /\ y.k = "inf" THEN (IF x.num = y.num THEN x ELSE FNaN)
  ELSE IF x.k = "inf" THEN x
  ELSE IF y.k = "inf" THEN y
  ELSE Num(x.num * y.den + y.num * x.den, x.den * y.den)

FMul(x, y) ==
  IF x.k = "nan" \/ y.k = "nan" THEN FNaN
  ELSE IF x.k = "inf" \/ y.k = "inf"
       THEN (IF x.num = 0 \/ y.num = 0 THEN FNaN ELSE FInf(Sign(x.num) * Sign(y.num)))
  ELSE Num(x.num * y.num, x.den * y.den)

\* x > y; false when either side is NaN
FGt(x, y) ==
  IF x.k = "nan" \/ y.k = "nan" THEN FALSE
  ELSE IF x.k = "inf" THEN x.num > 0 /\ ~(y.k = "inf" /\ y.num > 0)
  ELSE IF y.k = "inf" THEN y.num < 0
  ELSE x.num * y.den > y.num * x.den

FInt(n) == Num(n, 1)

\* a selection that always takes the computed quotient
WhereUnguarded(cond, x, y) == x
\* np.where(cond, x, y) for one row
Where(cond, x, y) == IF cond THEN x ELSE y

(***************************************************************************)
(* Python and numpy floats: non-negative IEEE 754 binary64 values, NaN and *)
(* +infinity. A number is its 53-bit significand (its first bit is 1),     *)
(* held as the integer of its upper 26 bits and the integer of its lower   *)
(* 27 bits, and the exponent of its first bit; zero has the significand 0. *)
(* Every operation rounds to nearest, ties to even.                        *)
(***************************************************************************)
MantissaBits == 53
DZero == [k |-> "num", m |-> <<0, 0>>, e |-> 0]
DNaN == [k |-> "nan", m |-> <<0, 0>>, e |-> 0]
DInf == [k |-> "inf", m |-> <<0, 0>>, e |-> 0]

\* the float after x (x a number above 0)
Succ(x) ==
  IF x.m[2] + 1 < 2^27 THEN [x EXCEPT !.m = <<x.m[1], x.m[2] + 1>>]
  ELSE IF x.m[1] + 1 < 2^26 THEN [x EXCEPT !.m = <<x.m[1] + 1, 0>>]
  ELSE [x EXCEPT !.m = <<2^25, 0>>, !.e = x.e + 1]

\* the binary64 value nearest to the significand <<hi, lo>> followed by the bit guard
\* and, when sticky, by further non-zero bits: a tie goes to the even significand
Round(hi, lo, e, guard, sticky) ==
  LET x == [k |-> "num", m |-> <<hi, lo>>, e |-> e] IN
  IF guard /\ (sticky \/ lo % 2 = 1) THEN Succ(x) ELSE x

\* float(n) for an int 0 <= n < 2^26
DInt(n) ==
  IF n = 0 THEN DZero
  ELSE LET e == CHOOSE i \in 0..25 : n < 2^(i + 1)
       IN [k |-> "num", m |-> <<n * 2^(25 - e), 0>>, e |-> e]

\* one step of long division: the next c bits of r / t and the remainder, for
\* 0 <= r < t < 2^17 and c <= 13
DivStep(r, t, c) == [q |-> (r * 2^c) \div t, r |-> (r * 2^c) % t]

\* a / t * 2^e for t <= a < 2 * t: the 52 bits after the leading 1, the guard bit, and
\* whether the division leaves a remainder
DDivScaled(a, t, e) ==
  LET s1 == DivStep(a - t, t, 13)
      s2 == DivStep(s1.r, t, 12)
      s3 == DivStep(s2.r, t, 9)
      s4 == DivStep(s3.r, t, 9)
      s5 == DivStep(s4.r, t, 9)
      s6 == DivStep(s5.r, t, 1)
  IN Round(2^25 + s1.q * 2^12 + s2.q, s3.q * 2^18 + s4.q * 2^9 + s5.q, e,
           s6.q = 1, s6.r # 0)

\* a / t for ints 0 <= a < 2^17 and 0 < t < 2^17: int true division is correctly
\* rounded
DDiv(a, t) ==
  IF a = 0 THEN DZero
  ELSE IF a < t
  THEN LET j == CHOOSE i \in 1..17 : t <= a * 2^i IN DDivScaled(a * 2^j, t, -j)
  ELSE LET j == CHOOSE i \in 0..17 : a < t * 2^(i + 1) IN DDivScaled(a, t * 2^j, j)

\* x * k for a float x and an int 0 <= k < 2^12: the significand in three limbs of
\* 17, 18 and 18 bits is multiplied limb by limb and shifted back to 53 bits
DMulInt(x, k) ==
  IF x.k = "nan" THEN DNaN
  ELSE IF x.k = "inf" THEN (IF k = 0 THEN DNaN ELSE DInf)
  ELSE IF x = DZero \/ k = 0 THEN DZero
  ELSE LET l0 == x.m[1] \div 2^9
           l1 == (x.m[1] % 2^9) * 2^9 + x.m[2] \div 2^18
           l2 == x.m[2] % 2^18
           p2 == l2 * k
           p1 == l1 * k + p2 \div 2^18
           p0 == l0 * k + p1 \div 2^18
           r1 == p1 % 2^18
           r2 == p2 % 2^18
           s == CHOOSE i \in 0..12 : p0 < 2^(17 + i)
           n0 == p0 \div 2^s
           n1 == (p0 % 2^s) * 2^(18 - s) + r1 \div 2^s
           n2 == (r1 % 2^s) * 2^(18 - s) + r2 \div 2^s
       IN Round(n0 * 2^9 + n1 \div 2^9, (n1 % 2^9) * 2^18 + n2, x.e + s,
                s > 0 /\ (r2 \div 2^(s - 1)) % 2 = 1,
                s > 0 /\ r2 % 2^(s - 1) # 0)

\* x + y for numbers above 0 with x.e >= y.e: y is shifted to the places of x, and
\* the bits of y below the last place of x decide the rounding
DAddAligned(x, y) ==
  LET d == x.e - y.e
      yh == IF d <= 26
            THEN <<y.m[1] \div 2^d, (y.m[1] % 2^d) * 2^(27 - d) + y.m[2] \div 2^d>>
            ELSE <<0, y.m[1] \div 2^(d - 27)>>
      guard == IF d = 0 THEN FALSE
               ELSE IF d <= 27 THEN (y.m[2] \div 2^(d - 1)) % 2 = 1
               ELSE (y.m[1] \div 2^(d - 28)) % 2 = 1
      sticky == IF d = 0 THEN FALSE
                ELSE IF d <= 27 THEN y.m[2] % 2^(d - 1) # 0
                ELSE y.m[1] % 2^(d - 28) # 0 \/ y.m[2] # 0
      sl == x.m[2] + yh[2]
      tl == sl % 2^27
      th == x.m[1] + yh[1] + sl \div 2^27
  IN IF th < 2^26 THEN Round(th, tl, x.e, guard, sticky)
     ELSE Round(th \div 2, (th % 2) * 2^26 + tl \div 2, x.e + 1,
                tl % 2 = 1, guard \/ sticky)

\* x + y: a y below a quarter of the last place of x is rounded away
DAdd(x, y) ==
  IF x.k = "nan" \/ y.k = "nan" THEN DNaN
  ELSE IF x.k = "inf" \/ y.k = "inf" THEN DInf
  ELSE IF x = DZero THEN y
  ELSE IF y = DZero THEN x
  ELSE IF x.e < y.e
  THEN (IF y.e - x.e > MantissaBits + 1 THEN y ELSE DAddAligned(y, x))
  ELSE (IF x.e - y.e > MantissaBits + 1 THEN x ELSE DAddAligned(x, y))
\* x and y are one number or two adjacent ones
Near(x, y) ==
  /\ x.k = "num" /\ y.k = "num"
  /\ x = y \/ (x # DZero /\ Succ(x) = y) \/ (y # DZero /\ Succ(y) = x)

\* x <= y; false when either side is NaN
DLe(x, y) ==
  IF x.k = "nan" \/ y.k = "nan" THEN FALSE
  ELSE IF y.k = "inf" THEN TRUE
  ELSE IF x.k = "inf" THEN FALSE
  ELSE IF x = DZero THEN TRUE
  ELSE IF y = DZero THEN FALSE
  ELSE IF x.e # y.e THEN x.e < y.e
  ELSE x.m[1] < y.m[1] \/ (x.m[1] = y.m[1] /\ x.m[2] <= y.m[2])

(***************************************************************************)
(* pd.DataFrame(all_data) and the derived columns.                         *)
(***************************************************************************)
CountColumns == {"approved_without_edit", "post_edited_0_5", "post_edited_6_10",
                 "post_edited_11_15", "post_edited_other"}

\* the cell of a count column: an integer, None (NaN next to integers, None in a
\* column of dtype object; missing to every operator either way), or the str, list or
\* dict the document holds
Cell(v) ==
  CASE v.t = "int" -> FInt(v.n)
    [] v.t = "null" -> FNaN
    [] OTHER -> FPy(v)

\* a total_post_edited that leaves the 'other' bucket out
TotalPostEditedNoOther(pe_0_5, pe_6_10, pe_11_15, pe_other) ==
  FAdd(FAdd(pe_0_5, pe_6_10), pe_11_15)
\* total_strings and total_post_edited of one row
TotalStrings(approved, pe_0_5, pe_6_10, pe_11_15, pe_other) ==
  FAdd(FAdd(FAdd(FAdd(approved, pe_0_5), pe_6_10), pe_11_15), pe_other)
TotalPostEdited(pe_0_5, pe_6_10, pe_11_15, pe_other) ==
  FAdd(FAdd(FAdd(pe_0_5, pe_6_10), pe_11_15), pe_other)

\* column / column for two columns of counts: the cells are divided as floats, each
\* quotient rounded once; a zero divisor gives NaN or an infinity, never an error
TrueDiv(x, y) ==
  IF x.k = "nan" \/ y.k = "nan" THEN DNaN
  ELSE IF y.num = 0 THEN (IF x.num = 0 THEN DNaN ELSE DInf)
  ELSE DDiv(x.num, y.num)

\* a rate left as a fraction, not scaled to a percentage
RateFraction(part, total_strings) ==
  Where(FGt(total_strings, FInt(0)), TrueDiv(part, total_strings), DZero)
\* np.where(total_strings > 0, (part / total_strings) * 100, 0) for one row: the
\* quotient is rounded, and its product with 100 is rounded again
Rate(part, total_strings) ==
  Where(FGt(total_strings, FInt(0)), DMulInt(TrueDiv(part, total_strings), 100), DZero)

\* a quality_score with the weights of the 6-10 and 11-15 tiers exchanged
QualityScoreSwapped(approved, pe_0_5, pe_6_10, pe_11_15, pe_other, total_strings) ==
  Where(FGt(total_strings, FInt(0)),
        TrueDiv(FAdd(FAdd(FAdd(FAdd(FMul(approved, FInt(100)),
                                    FMul(pe_0_5, FInt(95))),
                               FMul(pe_6_10, FInt(70))),
                          FMul(pe_11_15, FInt(85))),
                     FMul(pe_other, FInt(40))),
                total_strings),
        DZero)
\* a quality_score with the five weights applied in the reverse order
QualityScoreReversed(approved, pe_0_5, pe_6_10, pe_11_15, pe_other, total_strings) ==
  Where(FGt(total_strings, FInt(0)),
        TrueDiv(FAdd(FAdd(FAdd(FAdd(FMul(approved, FInt(40)),
                                    FMul(pe_0_5, FInt(70))),
                               FMul(pe_6_10, FInt(85))),
                          FMul(pe_11_15, FInt(95))),
                     FMul(pe_other, FInt(100))),
                total_strings),
        DZero)
\* quality_score of one row: the weighted sum is a sum of integers, and its quotient
\* by total_strings is rounded once
QualityScore(approved, pe_0_5, pe_6_10, pe_11_15, pe_other, total_strings) ==
  Where(FGt(total_strings, FInt(0)),
        TrueDiv(FAdd(FAdd(FAdd(FAdd(FMul(approved, FInt(100)),
                                    FMul(pe_0_5, FInt(95))),
                               FMul(pe_6_10, FInt(85))),
                          FMul(pe_11_15, FInt(70))),
                     FMul(pe_other, FInt(40))),
                total_strings),
        DZero)

\* a risk_score with the weights of the 11-15 and 6-10 buckets exchanged
RiskScoreSwapped(critical_edit_rate, pe_6_10, pe_11_15, total_strings) ==
  DAdd(DAdd(DMulInt(critical_edit_rate, 3),
            DMulInt(DMulInt(TrueDiv(pe_11_15, total_strings), 100), 1)),
       DMulInt(DMulInt(TrueDiv(pe_6_10, total_strings), 100), 2))

\* risk_score of one row: its divisions are not guarded, and every product, quotient
\* and sum is rounded, in the order Python evaluates
\* critical_edit_rate * 3 + pe_11_15 / total * 100 * 2 + pe_6_10 / total * 100 * 1
RiskScore(critical_edit_rate, pe_6_10, pe_11_15, total_strings) ==
  DAdd(DAdd(DMulInt(critical_edit_rate, 3),
            DMulInt(DMulInt(TrueDiv(pe_11_15, total_strings), 100), 2)),
       DMulInt(DMulInt(TrueDiv(pe_6_10, total_strings), 100), 1))

\* the metric columns of one row, from the cells of its count columns
DerivedMetrics(approved, pe_0_5, pe_6_10, pe_11_15, pe_other) ==
  LET total_strings == TotalStrings(approved, pe_0_5, pe_6_10, pe_11_15, pe_other)
      total_post_edited == TotalPostEdited(pe_0_5, pe_6_10, pe_11_15, pe_other)
      critical_edit_rate == Rate(pe_other, total_strings)
  IN
  [ total_strings |-> total_strings,
    total_post_edited |-> total_post_edited,
    approval_rate |-> Rate(approved, total_strings),
    human_intervention_rate |-> Rate(total_post_edited, total_strings),
    critical_edit_rate |-> critical_edit_rate,
    minor_edit_rate |-> Rate(pe_0_5, total_strings),
    quality_score |->
      QualityScore(approved, pe_0_5, pe_6_10, pe_11_15, pe_other, total_strings),
    risk_score |-> RiskScore(critical_edit_rate, pe_6_10, pe_11_15, total_strings) ]

\* one row of the returned table: the record's own fields and its metric columns
TableRow(rec) ==
  LET m == DerivedMetrics(Cell(rec.approved_without_edit), Cell(rec.post_edited_0_5),
                          Cell(rec.post_edited_6_10), Cell(rec.post_edited_11_15),
                          Cell(rec.post_edited_other))
  IN
  [ project |-> rec.project,
    language |-> rec.language,
    language_code |-> rec.language_code,
    method |-> rec.method,
    approved_without_edit |-> Cell(rec.approved_without_edit),
    post_edited_0_5 |-> Cell(rec.post_edited_0_5),
    post_edited_6_10 |-> Cell(rec.post_edited_6_10),
    post_edited_11_15 |-> Cell(rec.post_edited_11_15),
    post_edited_other |-> Cell(rec.post_edited_other),
    weighted_units |-> rec.weighted_units,
    temporal_data |-> rec.temporal_data,
    date_from |-> rec.date_from,
    date_to |-> rec.date_to,
    total_strings |-> m.total_strings,
    total_post_edited |-> m.total_post_edited,
    approval_rate |-> m.approval_rate,
    human_intervention_rate |-> m.human_intervention_rate,
    critical_edit_rate |-> m.critical_edit_rate,
    minor_edit_rate |-> m.minor_edit_rate,
    quality_score |-> m.quality_score,
    risk_score |-> m.risk_score ]

\* the kind of a cell of a count column: a number, a missing value, or the Python
\* type of the object it holds
CellKind(v) ==
  CASE v.t = "int" -> "num"
    [] v.t = "null" -> "na"
    [] OTHER -> v.t

\* the kind of column + column in one row, "raise" when the addition raises. Where an
\* operand is missing the result is NaN: on float columns by the arithmetic, on a
\* column of dtype object because pandas, after the TypeError of the whole-column
\* attempt, applies the operator to the rows where both cells are present and fills
\* the others with NaN. Between two present cells Python adds two numbers,
\* concatenates two strings or two lists, and raises TypeError on any other pair
KAdd(x, y) ==
  IF x = "raise" \/ y = "raise" THEN "raise"
  ELSE IF x = "na" \/ y = "na" THEN "na"
  ELSE IF x = y /\ x \in {"num", "str", "list"} THEN x
  ELSE "raise"
\* column * n for an int n: a str or a list is repeated, a dict raises TypeError
KMulInt(x) == IF x = "obj" THEN "raise" ELSE x
\* column / column in one row: only two numbers divide
KDiv(x, y) ==
  IF x = "raise" \/ y = "raise" THEN "raise"
  ELSE IF x = "na" \/ y = "na" THEN "na"
  ELSE IF x = "num" /\ y = "num" THEN "num"
  ELSE "raise"
\* column > 0 in one row raises: a missing cell compares False, a str or a list
\* raises TypeError
KGtRaises(x) == x \notin {"num", "na"}

\* the statements of lines 229-259 raise TypeError on the cells of record rec
RowArithmeticRaises(rec) ==
  LET approved == CellKind(rec.approved_without_edit)
      pe_0_5 == CellKind(rec.post_edited_0_5)
      pe_6_10 == CellKind(rec.post_edited_6_10)
      pe_11_15 == CellKind(rec.post_edited_11_15)
      pe_other == CellKind(rec.post_edited_other)
      total_strings == KAdd(KAdd(KAdd(KAdd(approved, pe_0_5), pe_6_10), pe_11_15), pe_other)
      total_post_edited == KAdd(KAdd(KAdd(pe_0_5, pe_6_10), pe_11_15), pe_other)
      weighted == KAdd(KAdd(KAdd(KAdd(KMulInt(approved), KMulInt(pe_0_5)),
                                 KMulInt(pe_6_10)), KMulInt(pe_11_15)), KMulInt(pe_other))
  IN
  \/ total_strings = "raise"
  \/ total_post_edited = "raise"
  \/ KGtRaises(total_strings)
  \/ \E part \in {approved, total_post_edited, pe_other, pe_0_5} :
       KMulInt(KDiv(part, total_strings)) = "raise"
  \/ KDiv(weighted, total_strings) = "raise"
  \/ \E part \in {pe_11_15, pe_6_10} :
       KMulInt(KMulInt(KDiv(part, total_strings))) = "raise"

\* a column holding a str, a list or a dict, or None alone, has dtype object, and so
\* has every column computed from it; the cells of such a column are divided as Python
\* numbers, and a total_strings of 0 (five integers that add up to 0) raises
\* ZeroDivisionError where float columns give NaN
DivisionByZeroRaises(records) ==
  LET ObjectColumn(col) ==
        \/ \E i \in 1..Len(records) : records[i][col].t \notin {"int", "null"}
        \/ \A i \in 1..Len(records) : records[i][col].t = "null"
      ZeroTotal(rec) ==
        /\ \A col \in CountColumns : rec[col].t = "int"
        /\ rec.approved_without_edit.n + rec.post_edited_0_5.n + rec.post_edited_6_10.n
             + rec.post_edited_11_15.n + rec.post_edited_other.n = 0
  IN
  /\ \E col \in CountColumns : ObjectColumn(col)
  /\ \E i \in 1..Len(records) : ZeroTotal(records[i])

\* the arithmetic on the count columns raises out of load_crowdin_data
ArithmeticRaises(records) ==
  \/ \E i \in 1..Len(records) : RowArithmeticRaises(records[i])
  \/ DivisionByZeroRaises(records)

\* a table whose rows all carry the date range of the first record
BuildTableDatedByFirst(records) ==
  [i \in 1..Len(records) |->
     [TableRow(records[i]) EXCEPT !.date_from = records[1].date_from,
                                  !.date_to = records[1].date_to]]

BuildTable(records) == [i \in 1..Len(records) |-> TableRow(records[i])]

(***************************************************************************)
(* create_temporal_data.                                                   *)
(***************************************************************************)
\* the ISO date strings of the days of January 2024
January ==
  << "2024-01-01", "2024-01-02", "2024-01-03", "2024-01-04", "2024-01-05", "2024-01-06",
     "2024-01-07", "2024-01-08", "2024-01-09", "2024-01-10", "2024-01-11", "2024-01-12",
     "2024-01-13", "2024-01-14", "2024-01-15", "2024-01-16", "2024-01-17", "2024-01-18",
     "2024-01-19", "2024-01-20", "2024-01-21", "2024-01-22", "2024-01-23", "2024-01-24",
     "2024-01-25", "2024-01-26", "2024-01-27", "2024-01-28", "2024-01-29", "2024-01-30",
     "2024-01-31" >>

\* pd.to_datetime(date_str): the day of January 2024 a date string denotes, 0 when it
\* raises
ParseDate(date_str) ==
  IF \E i \in 1..Len(January) : January[i] = date_str
  THEN CHOOSE i \in 1..Len(January) : January[i] = date_str
  ELSE CASE date_str = "2024/01/01" -> 1
         [] date_str = "2024/01/05" -> 5
         [] OTHER -> 0

\* a test that lets the day with no strings through
DayKeptAlways(total_day) == total_day >= 0
\* if total_day > 0
DayKept(total_day) == DayKeptAlways(total_day) /\ total_day # 0

\* a rate left as a fraction
DayRateFraction(part, total_day) == DDiv(part, total_day)
\* (part / total_day) * 100
DayRate(part, total_day) == DMulInt(DayRateFraction(part, total_day), 100)

\* the body of the try block for one (date_str, stats) entry of a row (day counts
\* that are ints are >= 0 in every input of this model)
DayRecords(row, date_str, stats) ==
  IF ParseDate(date_str) = 0 THEN Raised(<<>>)
  ELSE IF ~IsObj(stats) THEN Raised(<<>>)
  ELSE
    LET postEdited == Get(stats, "postEdited", EmptyObj) IN
    IF ~IsObj(postEdited) THEN Raised(<<>>)
    ELSE
      LET approved == Get(stats, "approvedWithoutEdit", JInt(0))
          b1 == Get(postEdited, "0-5", JInt(0))
          b2 == Get(postEdited, "6-10", JInt(0))
          b3 == Get(postEdited, "11-15", JInt(0))
          b4 == Get(postEdited, "other", JInt(0))
      IN
      IF ~(IsInt(approved) /\ IsInt(b1) /\ IsInt(b2) /\ IsInt(b3) /\ IsInt(b4))
      THEN Raised(<<>>)
      ELSE
        LET total_day == approved.n + b1.n + b2.n + b3.n + b4.n IN
        IF DayKept(total_day)
        THEN Done(<< [ date |-> ParseDate(date_str),
                       project |-> row.project,
                       language |-> row.language,
                       method |-> row.method,
                       approved_without_edit |-> approved.n,
                       total_strings |-> total_day,
                       approval_rate |-> DayRate(approved.n, total_day),
                       intervention_rate |->
                         DayRate(b1.n + b2.n + b3.n + b4.n, total_day),
                       critical_edits |-> b4.n ] >>)
        ELSE Done(<<>>)

\* a loop that sits inside the try block: the first entry that raises ends the row
RECURSIVE RowTemporalRecordsUntilRaise(_, _, _)
RowTemporalRecordsUntilRaise(row, dates, i) ==
  IF i > Len(dates) THEN <<>>
  ELSE LET r == DayRecords(row, dates[i], row.temporal_data.o[dates[i]]) IN
       IF r.ok THEN r.rows \o RowTemporalRecordsUntilRaise(row, dates, i + 1) ELSE <<>>

RECURSIVE RowTemporalRecords(_, _, _)
RowTemporalRecords(row, dates, i) ==
  IF i > Len(dates) THEN <<>>
  ELSE DayRecords(row, dates[i], row.temporal_data.o[dates[i]]).rows
         \o RowTemporalRecords(row, dates, i + 1)

\* the rows in their order, and the entries of a row in the order of its mapping's keys
RECURSIVE TemporalRecords(_, _)
TemporalRecords(rows, i) ==
  IF i > Len(rows) THEN <<>>
  ELSE (IF Truthy(rows[i].temporal_data) /\ IsObj(rows[i].temporal_data)
        THEN RowTemporalRecords(rows[i], rows[i].temporal_data.keys, 1)
        ELSE <<>>)
       \o TemporalRecords(rows, i + 1)

create_temporal_data(rows) == TemporalRecords(rows, 1)

(***************************************************************************)
(* Input documents.  Absent marks a key the document does not have; Obj    *)
(* builds the object holding only the keys that are present.               *)
(***************************************************************************)
Absent == [t |-> "absent"]
Obj(f) == JObj([k \in {x \in DOMAIN f : f[x] # Absent} |-> f[k]])
\* the same, with the present keys written in the order of keys
ObjIn(keys, f) ==
  JObjIn(SelectSeq(keys, LAMBDA x : f[x] # Absent),
         [k \in {x \in DOMAIN f : f[x] # Absent} |-> f[k]])

BucketKeys == {"0-5", "6-10", "11-15", "other"}
Counts(n) == {JInt(c) : c \in 0..n}

\* a cumulativeStatistics object with all six fields written out
FullStats(v) ==
  JObj([approvedWithoutEdit |-> JInt(v[1]),
        postEdited |-> JObj([k \in BucketKeys |->
                       JInt(CASE k = "0-5" -> v[2] [] k = "6-10" -> v[3]
                              [] k = "11-15" -> v[4] [] k = "other" -> v[5])]),
        weightedUnits |-> JInt(v[1])])

MethodBlock(cumulative, temporal) ==
  Obj([cumulativeStatistics |-> cumulative, temporalStatistics |-> temporal])
LanguageBlock(language, ai, mt, tm) ==
  Obj([language |-> language, ai |-> ai, mt |-> mt, tm |-> tm])
Export(name, dateRange, data) ==
  Obj([name |-> name, dateRange |-> dateRange, data |-> data])

English == JObj([name |-> JStr("English"), code |-> JStr("en")])
French == JObj([name |-> JStr("French"), code |-> JStr("fr")])

(* Family 1: one export with one language block and one method block, its  *)
(* cumulativeStatistics drawn field by field.                              *)
ApprovedOpts == {Absent, JNull} \cup Counts(MaxCount)
PostEditedKeySets == {{}, BucketKeys, {"other"}, {"0-5", "6-10"}}
PostEditedOpts ==
  {Absent, JNull} \cup
  {JObj(f) : f \in UNION {[D -> Counts(MaxCount)] : D \in PostEditedKeySets}}
WeightedOpts == {Absent} \cup Counts(MaxCount)
CumulativeOpts ==
  {Absent} \cup
  {Obj([approvedWithoutEdit |-> a, postEdited |-> pe, weightedUnits |-> w]) :
     a \in ApprovedOpts, pe \in PostEditedOpts, w \in WeightedOpts}
LanguageOpts ==
  {Absent, EmptyObj, JObj([name |-> JStr("English")]), JObj([code |-> JStr("en")]), English}
BlockShapes ==
  {<<l, "ai">> : l \in LanguageOpts} \cup {<<English, "mt">>, <<English, "tm">>}
\* counts written as text next to a missing count: one bucket, or all four
TextBuckets(keys) ==
  JObj([approvedWithoutEdit |-> JNull, postEdited |-> JObj([k \in keys |-> JStr("1")])])
ShapeStats == {Absent, JObj([weightedUnits |-> JInt(1)]),
               JObj([approvedWithoutEdit |-> JInt(1), postEdited |-> JObj([other |-> JInt(1)])]),
               TextBuckets({"other"}), TextBuckets(BucketKeys)}
\* every statistics object under one block shape, and every block shape with a few
SingleBlockInputs ==
  {<<<<English, "ai">>, c>> : c \in CumulativeOpts} \cup (BlockShapes \X ShapeStats)
SingleBlock(shape, cumulative) ==
  LET m == MethodBlock(cumulative, Absent) IN
  LanguageBlock(shape[1],
                IF shape[2] = "ai" THEN m ELSE Absent,
                IF shape[2] = "mt" THEN m ELSE Absent,
                IF shape[2] = "tm" THEN m ELSE Absent)
SingleBlockDir(shape, cumulative) ==
  [p \in {Path("a", "json")} |->
     GoodFile(Export(Absent, Absent, JList(<<SingleBlock(shape, cumulative)>>)))]

(* Family 2: one export whose language block has an AI block with counts v *)
(* and, optionally, an MT block with some strings of v moved into 'other'. *)
ExampleVec == <<80, 10, 5, 3, 2>>
Vectors == [1..5 -> 0..MaxVec] \cup {ExampleVec}
\* v with d[b] strings moved out of each bucket b of the first four into 'other'
MoveToOther(v, d) ==
  [i \in 1..5 |-> IF i = 5 THEN v[5] + d[1] + d[2] + d[3] + d[4] ELSE v[i] - d[i]]
Moves ==
  [1..4 -> 0..1] \cup
  {[i \in 1..4 |-> IF i = b THEN n ELSE 0] : b \in 1..4, n \in 0..MaxVec}
Moved(v) == {MoveToOther(v, d) : d \in {e \in Moves : \A i \in 1..4 : e[i] <= v[i]}}
VectorDir(v, mt) ==
  [p \in {Path("a", "json")} |->
     GoodFile(Export(JStr("P"), Absent,
       JList(<<LanguageBlock(English, MethodBlock(FullStats(v), Absent), mt, Absent)>>)))]
MovedOpts(v) ==
  {Absent} \cup {MethodBlock(FullStats(w), Absent) :
                   w \in Moved(v)}

(* Family 3: up to MaxFiles exports, some unparseable, some sharing a      *)
(* project name, some listing a language twice, next to a non-JSON file.   *)
DayStats == JObj([approvedWithoutEdit |-> JInt(1),
                  postEdited |-> JObj([other |-> JInt(1)])])
ZeroDay == JObj([approvedWithoutEdit |-> JInt(0)])
ThirdsDay == JObj([approvedWithoutEdit |-> JInt(1),
                   postEdited |-> JObj([x \in {"0-5", "other"} |-> JInt(1)])])
NoBucketsDay == JObj([approvedWithoutEdit |-> JInt(1), postEdited |-> JList(<<>>)])
TemporalKeys == <<"2024-01-01", "not a date", "2024-01-02", "2024-01-03",
                  "2024-01-04", "2024/01/05">>
Temporal == JObjIn(TemporalKeys,
                   [x \in {TemporalKeys[i] : i \in 1..Len(TemporalKeys)} |->
                      CASE x = "2024-01-02" -> ZeroDay
                        [] x = "2024-01-03" -> JStr("n/a")
                        [] x = "2024-01-04" -> NoBucketsDay
                        [] x = "2024/01/05" -> ThirdsDay
                        [] OTHER -> DayStats])
DatedBlock ==
  LanguageBlock(English, MethodBlock(FullStats(<<1, 0, 0, 0, 1>>), Temporal),
                Absent, MethodBlock(FullStats(<<1, 0, 0, 0, 0>>), Absent))
EnglishBlock ==
  LanguageBlock(English, MethodBlock(FullStats(<<1, 0, 0, 0, 1>>), Absent),
                Absent, MethodBlock(FullStats(<<1, 0, 0, 0, 0>>), Absent))
FrenchBlock ==
  LanguageBlock(French, MethodBlock(JObj([weightedUnits |-> JInt(1)]), Absent),
                MethodBlock(FullStats(<<0, 1, 0, 0, 0>>), Absent), Absent)
BrokenBlock == LanguageBlock(JNull, Absent, Absent, Absent)
NullBlock ==
  LanguageBlock(English, Absent, Absent,
                MethodBlock(JObj([approvedWithoutEdit |-> JNull, weightedUnits |-> JInt(1)]),
                            Absent))
TextBlock ==
  LanguageBlock(English, Absent, Absent,
                MethodBlock(JObj([approvedWithoutEdit |-> JStr("1")]), Absent))
DataOpts == {Absent, JList(<<EnglishBlock, EnglishBlock>>),
             JList(<<FrenchBlock, BrokenBlock>>), JList(<<NullBlock, TextBlock>>)}
NameOpts == {Absent, JStr("a")}
DateRange == JObj([from |-> JStr("2024-01-01"), to |-> JStr("2024-01-31")])
Files ==
  {BadFile, GoodFile(JList(<<>>))} \cup
  {GoodFile(Export(n, IF n = Absent THEN Absent ELSE DateRange,
                   JList(<<IF n = Absent THEN EnglishBlock ELSE DatedBlock>>))) :
     n \in NameOpts} \cup
  {GoodFile(Export(Absent, Absent, d)) : d \in DataOpts}

(* Family 4: one export with one language block whose AI block carries a   *)
(* temporal mapping of up to three days, written in either order, next to  *)
(* an optional MT block.                                                   *)
DayVectors == [1..3 -> 0..MaxDay]
DayOf(v) == JObj([approvedWithoutEdit |-> JInt(v[1]),
                  postEdited |-> JObj([x \in {"0-5", "other"} |->
                                         IF x = "0-5" THEN JInt(v[2]) ELSE JInt(v[3])])])
MalformedDays == {JNull, JStr("n/a"), NoBucketsDay,
                  JObj([approvedWithoutEdit |-> JStr("1")])}
FirstDayOpts == {Absent, ZeroDay} \cup {DayOf(v) : v \in DayVectors} \cup MalformedDays
LastDayOpts == {Absent, ZeroDay, ThirdsDay, JStr("n/a")}
Reversed(s) == [i \in 1..Len(s) |-> s[Len(s) + 1 - i]]
\* one good day for every day of January 2024, written first day first or last day first
MonthOfDays(keys) ==
  JObjIn(keys, [x \in {January[i] : i \in 1..Len(January)} |-> DayStats])
\* the orders a mapping of three entries is written in: first day first, or last
DayKeyOrders ==
  LET keys == <<"2024-01-01", "not a date", "2024/01/05">> IN {keys, Reversed(keys)}
TemporalOpts ==
  {Absent, JNull, JInt(1), JStr("2024-01-01"), JList(<<DayStats>>),
   MonthOfDays(January), MonthOfDays(Reversed(January))} \cup
  {ObjIn(keys, [x \in {"2024-01-01", "not a date", "2024/01/05"} |->
                  CASE x = "2024-01-01" -> first
                    [] x = "not a date" -> bad
                    [] OTHER -> last]) :
     keys \in DayKeyOrders,
     first \in FirstDayOpts, bad \in {Absent, DayStats}, last \in LastDayOpts}
SecondMethodOpts == {Absent, MethodBlock(FullStats(<<1, 0, 0, 0, 0>>), Absent),
                     MethodBlock(FullStats(<<1, 0, 0, 0, 0>>), Temporal)}
TemporalDir(temporal, mt) ==
  [p \in {Path("a", "json")} |->
     GoodFile(Export(Absent, Absent,
                     JList(<<LanguageBlock(English,
                                           MethodBlock(FullStats(<<1, 0, 0, 0, 1>>), temporal),
                                           mt, Absent)>>)))]
\* directories without a table: no file, no record, a count that is a string
EdgeDirs == {[p \in {NotesPath} |-> GoodFile(JList(<<>>))]} \cup
            {[p \in {Path("a", "json")} |-> f] :
               f \in {GoodFile(JList(<<>>)), GoodFile(Export(Absent, Absent, JList(<<TextBlock>>)))}}

(* Family 5: the directories one process sees over its life, as a.json is  *)
(* added, removed or rewritten and b.json is added or removed.             *)
CacheFileOpts ==
  {GoodFile(JList(<<>>))} \cup
  {GoodFile(Export(Absent, Absent, JList(<<b>>))) : b \in {EnglishBlock, FrenchBlock, TextBlock}}
CacheDirs ==
  {[p \in S |-> IF p = Path("a", "json")
                THEN f
                ELSE GoodFile(Export(Absent, Absent, JList(<<EnglishBlock>>)))] :
     S \in SUBSET {Path("a", "json"), Path("b", "json")}, f \in CacheFileOpts}

(* Family 6: up to two exports without a 'name', under file names that     *)
(* start with a dot or hold '.json' more than once, next to a.json.        *)
NamedDirs ==
  LET names == {Path("a", "json"), <<".", "a", ".", "json">>, <<".", "json">>,
                <<"a", ".", "json", ".", "json">>,
                <<"my", ".", "json", "file", ".", "json">>}
  IN {[p \in S |-> GoodFile(Export(Absent, Absent, JList(<<EnglishBlock>>)))] :
        S \in {T \in SUBSET names : Cardinality(T) \in 1..2}}

NotesFile == GoodFile(Export(JStr("notes"), Absent, JList(<<EnglishBlock>>)))
ManyFileDir(S, N, f) == [p \in S \cup N |-> IF p = NotesPath THEN NotesFile ELSE f[p]]


(***************************************************************************)
(* State.                                                                  *)
(***************************************************************************)
VARIABLES
  dir,          \* the working directory: path -> file
  pc,           \* where main is
  json_files,   \* load_crowdin_data: the list glob returned
  idx,          \* load_crowdin_data: position of the for loop in json_files
  all_data,     \* load_crowdin_data: the records appended so far
  warnings,     \* st.warning calls so far
  errors,       \* st.error calls so far
  df,           \* main: what load_crowdin_data returned
  temporal_df,  \* main: what create_temporal_data returned
  filtered_df,  \* main: the filtered primary table
  calls,        \* the functions main has called so far
  reads,        \* the columns of temporal_df the dashboards have read so far
  cache,        \* st.cache_data: the memoized results of load_crowdin_data
  selection     \* main: what the three sidebar multiselects returned

vars == <<dir, pc, json_files, idx, all_data, warnings, errors, df, temporal_df,
          filtered_df, calls, reads, cache, selection>>

NoPath == <<>>
Unset == [kind |-> "unset", rows |-> <<>>]
None == [kind |-> "none", rows |-> <<>>]
Table(rows) == [kind |-> "table", rows |-> rows]
\* what the three multiselects returned; nothing before the sidebar is drawn
Selection(projects, languages, methods) ==
  [projects |-> projects, languages |-> languages, methods |-> methods]
NoSelection == Selection({}, {}, {})

\* the working directory the program is started in
InitDir ==
  \/ \E in \in SingleBlockInputs : dir = SingleBlockDir(in[1], in[2])
  \/ \E v \in Vectors : \E mt \in MovedOpts(v) : dir = VectorDir(v, mt)
  \/ \E S \in SUBSET JsonPaths, N \in {{}, {NotesPath}} :
       \E f \in [S -> Files] : dir = ManyFileDir(S, N, f)
  \/ dir \in NamedDirs

\* the working directory of a run over the exports of family 4
TemporalInitDir ==
  \/ \E temporal \in TemporalOpts, mt \in SecondMethodOpts : dir = TemporalDir(temporal, mt)
  \/ dir \in EdgeDirs

Init ==
  /\ InitDir
  /\ pc = "main"
  /\ json_files = <<>>
  /\ idx = 0
  /\ all_data = <<>>
  /\ warnings = <<>>
  /\ errors = <<>>
  /\ df = Unset
  /\ temporal_df = Unset
  /\ filtered_df = Unset
  /\ calls = <<>>
  /\ reads = {}
  /\ cache = <<>>
  /\ selection = NoSelection

\* glob.glob("*.json"): the matching paths, in any order the file system lists them
Glob(d) ==
  LET S == {p \in DOMAIN d : MatchesGlob(p)} IN
  {o \in [1..Cardinality(S) -> S] : \A i, j \in 1..Cardinality(S) : o[i] = o[j] => i = j}

\* what st.cache_data keeps of a call that returned: the value, and the st.warning
\* and st.error calls made inside the function, which it replays on a hit
Memoized(value, w, e) == [value |-> value, warnings |-> w, errors |-> e]

\* main calls load_crowdin_data, which finds no file
LoadNoFiles ==
  /\ pc = "main"
  /\ cache = <<>>
  /\ Glob(dir) = {<<>>}
  /\ json_files' = <<>>
  /\ errors' = Append(errors, "No JSON files found")
  /\ df' = None
  /\ calls' = Append(calls, "load_crowdin_data")
  /\ cache' = <<Memoized(df', warnings, errors')>>
  /\ pc' = "loaded"
  /\ UNCHANGED <<dir, idx, all_data, warnings, temporal_df, filtered_df, reads, selection>>

\* main calls load_crowdin_data, which finds files and enters the loop
LoadGlob ==
  /\ pc = "main"
  /\ cache = <<>>
  /\ \E o \in Glob(dir) :
       /\ o # <<>>
       /\ json_files' = o
  /\ idx' = 1
  /\ all_data' = <<>>
  /\ calls' = Append(calls, "load_crowdin_data")
  /\ pc' = "loop"
  /\ UNCHANGED <<dir, warnings, errors, df, temporal_df, filtered_df, reads, cache,
                 selection>>

\* all_data after the iteration with outcome r
Appended(records, r) == records \o r.rows
\* the warnings after the iteration with outcome r for file_path
Warned(w, file_path, r) ==
  IF r.ok THEN w ELSE Append(w, [msg |-> "Error processing", file |-> file_path])

\* one iteration of the loop over json_files, its except clause included
ProcessFile ==
  /\ pc = "loop"
  /\ idx <= Len(json_files)
  /\ LET file_path == json_files[idx]
         r == ProcessFileBody(file_path, dir[file_path])
     IN /\ all_data' = Appended(all_data, r)
        /\ warnings' = Warned(warnings, file_path, r)
  /\ idx' = idx + 1
  /\ UNCHANGED <<dir, pc, json_files, errors, df, temporal_df, filtered_df, calls, reads,
                 cache, selection>>

\* the loop is over and no record was appended
LoadNoData ==
  /\ pc = "loop"
  /\ idx > Len(json_files)
  /\ all_data = <<>>
  /\ errors' = Append(errors, "No valid data found")
  /\ df' = None
  /\ cache' = <<Memoized(df', warnings, errors')>>
  /\ pc' = "loaded"
  /\ UNCHANGED <<dir, json_files, idx, all_data, warnings, temporal_df, filtered_df, calls,
                 reads, selection>>

\* the loop is over: the table is built and its metric columns are derived
LoadTable ==
  /\ pc = "loop"
  /\ idx > Len(json_files)
  /\ all_data # <<>>
  /\ ~ArithmeticRaises(all_data)
  /\ df' = Table(BuildTable(all_data))
  /\ cache' = <<Memoized(df', warnings, errors)>>
  /\ pc' = "loaded"
  /\ UNCHANGED <<dir, json_files, idx, all_data, warnings, errors, temporal_df,
                 filtered_df, calls, reads, selection>>

\* the loop is over: the arithmetic on the table raises out of load_crowdin_data and main
LoadRaises ==
  /\ pc = "loop"
  /\ idx > Len(json_files)
  /\ all_data # <<>>
  /\ ArithmeticRaises(all_data)
  /\ pc' = "raised"
  /\ UNCHANGED <<dir, json_files, idx, all_data, warnings, errors, df, temporal_df,
                 filtered_df, calls, reads, cache, selection>>

\* a main that tests df.empty alone
EmptyTableOnly(t) == t.kind = "table" /\ t.rows = <<>>
\* df is None or df.empty
NoData(t) == t.kind = "none" \/ t.rows = <<>>

MainNoData ==
  /\ pc = "loaded"
  /\ NoData(df)
  /\ errors' = Append(errors, "No data available")
  /\ pc' = "done"
  /\ UNCHANGED <<dir, json_files, idx, all_data, warnings, df, temporal_df,
                 filtered_df, calls, reads, cache, selection>>

MainTemporal ==
  /\ pc = "loaded"
  /\ ~NoData(df)
  /\ temporal_df' = Table(create_temporal_data(df.rows))
  /\ calls' = Append(calls, "create_temporal_data")
  /\ pc' = "sidebar"
  /\ UNCHANGED <<dir, json_files, idx, all_data, warnings, errors, df, filtered_df, reads,
                 cache, selection>>

Column(rows, col) == {rows[i][col] : i \in 1..Len(rows)}

\* a filter that does not look at total_strings
FilterAnyTotal(rows, projects, languages, methods) ==
  LET keep(r) == /\ r.project \in projects
                 /\ r.language \in languages
                 /\ r.method \in methods
  IN SelectSeq(rows, keep)

\* the rows of df that pass the four tests of the filter
Filter(rows, projects, languages, methods) ==
  LET keep(r) == /\ r.project \in projects
                 /\ r.language \in languages
                 /\ r.method \in methods
                 /\ FGt(r.total_strings, FInt(0))
  IN SelectSeq(rows, keep)

\* what the three multiselects may return: each offers the sorted distinct values of
\* its column, and the user leaves it with any subset of them, independently of the
\* other two (the defaults, the first five projects, the first ten languages and all
\* methods, are one such return)
SidebarSelections(rows) ==
  {Selection(projects, languages, methods) :
     projects \in SUBSET Column(rows, "project"),
     languages \in SUBSET Column(rows, "language"),
     methods \in SUBSET Column(rows, "method")}

\* df[...]: the rows of df the sidebar selection keeps
Filtered(rows, s) == Filter(rows, s.projects, s.languages, s.methods)

\* the sidebar is drawn and the table is filtered, and is empty
MainFilterEmpty ==
  /\ pc = "sidebar"
  /\ \E s \in SidebarSelections(df.rows) :
       /\ Filtered(df.rows, s) = <<>>
       /\ selection' = s
       /\ filtered_df' = Table(<<>>)
  /\ warnings' = Append(warnings, [msg |-> "No data matches the selected filters",
                                   file |-> NoPath])
  /\ pc' = "done"
  /\ UNCHANGED <<dir, json_files, idx, all_data, errors, df, temporal_df, calls, reads,
                 cache>>

\* the table is filtered and is not empty
MainFilter ==
  /\ pc = "sidebar"
  /\ \E s \in SidebarSelections(df.rows) :
       /\ Filtered(df.rows, s) # <<>>
       /\ selection' = s
       /\ filtered_df' = Table(Filtered(df.rows, s))
  /\ pc' = "tabs"
  /\ UNCHANGED <<dir, json_files, idx, all_data, warnings, errors, df, temporal_df, calls,
                 reads, cache>>

Dashboards == <<"executive_summary", "human_value_proposition", "ai_mt_limitations",
                "quality_analysis", "temporal_insights", "business_impact">>

\* len(temporal_df) > 30
SeasonalMinRecords == 30
DayNames == <<"Monday", "Tuesday", "Wednesday", "Thursday", "Friday", "Saturday", "Sunday">>
\* .dt.day_name() and .dt.month_name() of a day of January 2024, which began on a Monday
DayName(date) == DayNames[((date - 1) % 7) + 1]
MonthName(date) == "January"
\* a record with the two columns the seasonal section assigns
WithSeasonalColumns(rec) ==
  [c \in DOMAIN rec \cup {"day_of_week", "month"} |->
     CASE c = "day_of_week" -> DayName(rec.date)
       [] c = "month" -> MonthName(rec.date)
       [] OTHER -> rec[c]]

\* the outcomes of px.scatter(daily_summary, ..., trendline="ols"), TRUE for a raise.
\* plotly fits the line only when the summary holds more than one row (one row per
\* date); the fit imports statsmodels, which raises ModuleNotFoundError where it is not
\* installed, and where it is, a plotly that reads fit_results.params[1] unguarded
\* raises IndexError on dates of one volume, while plotly 5 and later raises on none.
\* The installed libraries decide, so a fit may raise and may not
TrendlineRaises(rows) ==
  IF Cardinality({rows[i].date : i \in 1..Len(rows)}) > 1 THEN {TRUE, FALSE} ELSE {FALSE}

\* the part of the temporal dashboard after the test for the empty table, one result
\* for each outcome of the volume chart; ChartColumns are the columns of temporal_df
\* read up to that chart
TemporalCharts(t) ==
  LET ChartColumns == {"date", "total_strings", "approval_rate", "method"} IN
  {IF raised
   THEN [temporal_df |-> t, warned |-> FALSE, raised |-> TRUE, reads |-> ChartColumns]
   ELSE IF Len(t.rows) > SeasonalMinRecords
   THEN [temporal_df |-> Table([i \in 1..Len(t.rows) |-> WithSeasonalColumns(t.rows[i])]),
         warned |-> FALSE, raised |-> FALSE,
         reads |-> ChartColumns \cup {"day_of_week", "month"}]
   ELSE [temporal_df |-> t, warned |-> FALSE, raised |-> FALSE, reads |-> ChartColumns] :
     raised \in TrendlineRaises(t.rows)}

\* a temporal dashboard without the test for the empty table
TemporalInsightsUnguarded(t) == TemporalCharts(t)

\* temporal_insights(df, temporal_df), one result for each outcome the installed
\* libraries allow: the table it leaves in temporal_df, whether it warns that there is
\* no temporal data, whether it raises, and the columns of temporal_df it reads
temporal_insights(t) ==
  IF t.rows = <<>>
  THEN {[temporal_df |-> t, warned |-> TRUE, raised |-> FALSE, reads |-> {}]}
  ELSE TemporalCharts(t)

\* the six tabs are rendered in order. The four dashboards before temporal_insights and
\* the one after it draw from the filtered table (groupby, filters and sorted copies of
\* it), assign to no column of it or of temporal_df, and do not raise on a table whose
\* rows all have a positive total; an exception out of temporal_insights, the fifth,
\* leaves main, and business_impact is not called
MainTabs ==
  /\ pc = "tabs"
  /\ \E r \in temporal_insights(temporal_df) :
       /\ temporal_df' = r.temporal_df
       /\ reads' = r.reads
       /\ warnings' = IF r.warned
                      THEN Append(warnings, [msg |-> "No temporal data available for analysis",
                                             file |-> NoPath])
                      ELSE warnings
       /\ calls' = calls \o (IF r.raised THEN SubSeq(Dashboards, 1, 5) ELSE Dashboards)
       /\ pc' = IF r.raised THEN "tabs_raised" ELSE "done"
  /\ UNCHANGED <<dir, json_files, idx, all_data, errors, df, filtered_df, cache, selection>>

Next ==
  \/ LoadNoFiles
  \/ LoadGlob
  \/ ProcessFile
  \/ LoadNoData
  \/ LoadTable
  \/ LoadRaises
  \/ MainNoData
  \/ MainTemporal
  \/ MainFilterEmpty
  \/ MainFilter
  \/ MainTabs

Spec == Init /\ [][Next]_vars

(***************************************************************************)
(* load_crowdin_data called by itself: the run ends when the loader        *)
(* returns or raises.                                                      *)
(***************************************************************************)
LoaderNext ==
  \/ LoadNoFiles
  \/ LoadGlob
  \/ ProcessFile
  \/ LoadNoData
  \/ LoadTable
  \/ LoadRaises

LoaderSpec == Init /\ [][LoaderNext]_vars

\* the program started on an export of family 4
TemporalInit ==
  /\ TemporalInitDir
  /\ pc = "main"
  /\ json_files = <<>>
  /\ idx = 0
  /\ all_data = <<>>
  /\ warnings = <<>>
  /\ errors = <<>>
  /\ df = Unset
  /\ temporal_df = Unset
  /\ filtered_df = Unset
  /\ calls = <<>>
  /\ reads = {}
  /\ cache = <<>>
  /\ selection = NoSelection

TemporalSpec == TemporalInit /\ [][Next]_vars

(***************************************************************************)
(* Runs over one export with one AI block whose five counts are drawn      *)
(* freely, and over the directories without a table.                       *)
(***************************************************************************)
RateInit ==
  /\ dir \in {VectorDir(v, Absent) : v \in Vectors} \cup EdgeDirs
  /\ pc = "main"
  /\ json_files = <<>>
  /\ idx = 0
  /\ all_data = <<>>
  /\ warnings = <<>>
  /\ errors = <<>>
  /\ df = Unset
  /\ temporal_df = Unset
  /\ filtered_df = Unset
  /\ calls = <<>>
  /\ reads = {}
  /\ cache = <<>>
  /\ selection = NoSelection

RateSpec == RateInit /\ [][Next]_vars

(***************************************************************************)
(* One Streamlit process: the script is run again and again over a         *)
(* directory that changes between runs, and st.cache_data outlives a run.  *)
(***************************************************************************)
\* main calls load_crowdin_data and st.cache_data has a result for it: the body is
\* not run, the stored value is returned and the stored messages are shown again
LoadCached ==
  /\ pc = "main"
  /\ cache # <<>>
  /\ df' = cache[1].value
  /\ warnings' = cache[1].warnings
  /\ errors' = cache[1].errors
  /\ calls' = Append(calls, "load_crowdin_data")
  /\ pc' = "loaded"
  /\ UNCHANGED <<dir, json_files, idx, all_data, temporal_df, filtered_df, reads, cache,
                 selection>>

\* Streamlit runs the script again from the top, in the same process
Rerun ==
  /\ pc \in {"done", "raised", "tabs_raised"}
  /\ pc' = "main"
  /\ json_files' = <<>>
  /\ idx' = 0
  /\ all_data' = <<>>
  /\ warnings' = <<>>
  /\ errors' = <<>>
  /\ df' = Unset
  /\ temporal_df' = Unset
  /\ filtered_df' = Unset
  /\ calls' = <<>>
  /\ reads' = {}
  /\ selection' = NoSelection
  /\ UNCHANGED <<dir, cache>>

\* between two runs a JSON file is added, removed or rewritten
ChangeFiles ==
  /\ pc \in {"done", "raised", "tabs_raised"}
  /\ dir' \in CacheDirs \ {dir}
  /\ UNCHANGED <<pc, json_files, idx, all_data, warnings, errors, df, temporal_df,
                 filtered_df, calls, reads, cache, selection>>

CacheInit ==
  /\ dir \in CacheDirs
  /\ pc = "main"
  /\ json_files = <<>>
  /\ idx = 0
  /\ all_data = <<>>
  /\ warnings = <<>>
  /\ errors = <<>>
  /\ df = Unset
  /\ temporal_df = Unset
  /\ filtered_df = Unset
  /\ calls = <<>>
  /\ reads = {}
  /\ cache = <<>>
  /\ selection = NoSelection

CacheNext == Next \/ LoadCached \/ Rerun \/ ChangeFiles

CacheSpec == CacheInit /\ [][CacheNext]_vars

(***************************************************************************)
(* Properties.                                                             *)
(***************************************************************************)
JsonPathsOf(d) == {p \in DOMAIN d : MatchesGlob(p)}
\* the loop of the loader has just ended, or the loader has just returned or raised
LoopOver == pc \in {"loaded", "raised"} \/ (pc = "loop" /\ idx > Len(json_files))
LoadEnded == pc \in {"loaded", "raised", "sidebar", "tabs", "tabs_raised", "done"}
Returned == pc \in {"loaded", "sidebar", "tabs", "tabs_raised", "done"}
StatColumns == CountColumns \cup {"weighted_units"}

\* C1: a method block whose approvedWithoutEdit, four postEdited buckets and
\* weightedUnits are all zero, written out or absent, leaves no record in all_data:
\* no record of all_data has all six statistics equal to zero.
C1_AllZeroBlockDropped ==
  \A i \in 1..Len(all_data) : \E col \in StatColumns : all_data[i][col] # JInt(0)

\* the records the files that parse produce by themselves, in the order of the listing
RECURSIVE RowsOfParsingFiles(_, _)
RowsOfParsingFiles(order, i) ==
  IF i > Len(order) THEN <<>>
  ELSE (IF dir[order[i]].parses THEN ProcessFileBody(order[i], dir[order[i]]).rows ELSE <<>>)
       \o RowsOfParsingFiles(order, i + 1)

\* some file of the listing fails JSON parsing
SomeBadFile == \E p \in JsonPathsOf(dir) : ~dir[p].parses
\* each file that fails JSON parsing has exactly one warning
OneWarningPerBadFile ==
  \A p \in JsonPathsOf(dir) :
    ~dir[p].parses => Cardinality({i \in 1..Len(warnings) : warnings[i].file = p}) = 1

\* C2: when some of the files fail JSON parsing, wherever they fall in the listing,
\* load_crowdin_data does not raise, each such file has exactly one warning, and what
\* is returned is the table of the records of the parsing files alone (None when they
\* yield no record).
C2_BadFilesSkipped ==
  (LoopOver /\ SomeBadFile) =>
    LET expected == RowsOfParsingFiles(json_files, 1) IN
    /\ pc # "raised"
    /\ OneWarningPerBadFile
    /\ pc = "loaded" =>
         df = IF expected = <<>> THEN None ELSE Table(BuildTable(expected))

\* the loop itself skips the files that fail JSON parsing: the records collected are
\* those of the parsing files alone, each bad file has one warning, and the loader
\* raises exactly when the arithmetic on those records raises
BadFilesChangeNothing ==
  LoopOver =>
    LET expected == RowsOfParsingFiles(json_files, 1) IN
    /\ all_data = expected
    /\ OneWarningPerBadFile
    /\ pc = "loaded" =>
         /\ df = IF expected = <<>> THEN None ELSE Table(BuildTable(expected))
         /\ expected # <<>> => ~ArithmeticRaises(expected)
    /\ pc = "raised" => expected # <<>> /\ ArithmeticRaises(expected)

\* an unparseable file is listed before a file that yields records, and the table is
\* returned
BadFileThenTable ==
  /\ pc = "loaded" /\ df.kind = "table" /\ Len(json_files) >= 2
  /\ ~dir[json_files[1]].parses
  /\ dir[json_files[2]].parses
  /\ Len(df.rows) >= 1 /\ Len(warnings) = 1
\* an unparseable file is listed next to a file with a count written as text, and the
\* loader has raised
BadFileThenRaise ==
  /\ pc = "raised" /\ SomeBadFile
  /\ \E i \in 1..Len(all_data) : all_data[i].approved_without_edit = JStr("1")

\* C3: with no *.json file, or with files that yield no record, load_crowdin_data
\* returns None without raising; main then reports "No data available" and returns
\* having called neither create_temporal_data nor any dashboard function.
C3_NoDataSignal ==
  /\ LoadEnded /\ (JsonPathsOf(dir) = {} \/ all_data = <<>>)
       => Returned /\ df = None
  /\ df = None => pc \in {"loaded", "done"} /\ calls = <<"load_crowdin_data">>
  /\ (df = None /\ pc = "done")
       => errors[Len(errors)] = "No data available" /\ temporal_df = Unset
          /\ filtered_df = Unset

\* C3 witness: files were read, none yielded a record, and main has returned.
C3_Witness ==
  /\ pc = "done" /\ df = None /\ json_files # <<>>
  /\ errors = <<"No valid data found", "No data available">>

\* C3 witness for the empty directory.
C3_WitnessNoFiles ==
  pc = "done" /\ df = None /\ json_files = <<>> /\ NotesPath \in DOMAIN dir

(* ---- the source blocks of the records ---- *)
MethodKeys == {<<"ai", "AI">>, <<"mt", "MT">>, <<"tm", "TM">>}
Has(v, k) == IsObj(v) /\ k \in DOMAIN v.o
\* the language blocks of the files the loader walks
SourceBlocks ==
  UNION {{dir[p].json.o["data"].l[i] : i \in 1..Len(dir[p].json.o["data"].l)} :
           p \in {q \in JsonPathsOf(dir) :
                    /\ dir[q].parses /\ Has(dir[q].json, "data")
                    /\ dir[q].json.o["data"].t = "list"}}
\* what the claim expects of a record made from cumulative: the value when the field is
\* present, zero when it is absent
Written(obj, k) == IF Has(obj, k) THEN obj.o[k] ELSE JInt(0)
WrittenBucket(cumulative, k) ==
  IF Has(cumulative, "postEdited") THEN Written(cumulative.o["postEdited"], k) ELSE JInt(0)
WrittenLanguage(block, k, default) ==
  IF Has(block, "language") /\ Has(block.o["language"], k)
  THEN block.o["language"].o[k] ELSE JStr(default)
MadeFrom(r, block, key) ==
  /\ Has(block, key[1]) /\ Has(block.o[key[1]], "cumulativeStatistics")
  /\ LET c == block.o[key[1]].o["cumulativeStatistics"] IN
     /\ r.method = key[2]
     /\ r.approved_without_edit = Written(c, "approvedWithoutEdit")
     /\ r.post_edited_0_5 = WrittenBucket(c, "0-5")
     /\ r.post_edited_6_10 = WrittenBucket(c, "6-10")
     /\ r.post_edited_11_15 = WrittenBucket(c, "11-15")
     /\ r.post_edited_other = WrittenBucket(c, "other")
     /\ r.weighted_units = Written(c, "weightedUnits")
     /\ r.language = WrittenLanguage(block, "name", "Unknown")
     /\ r.language_code = WrittenLanguage(block, "code", "unknown")

\* every record carries the statistics of one of the source blocks, absent fields as 0
\* and an absent language as 'Unknown'/'unknown'
C4_DefaultsApplied ==
  \A i \in 1..Len(all_data) :
    \E block \in SourceBlocks, key \in MethodKeys : MadeFrom(all_data[i], block, key)
\* no count column holds a null
C4_NoNullCount ==
  \A i \in 1..Len(all_data) : \A col \in CountColumns : all_data[i][col] # JNull

\* C4: every FlatRecord has its five counts and weighted_units equal to the source value
\* when present and 0 when absent, its language and code 'Unknown'/'unknown' when
\* absent, and no count column holds a null that enters the metric arithmetic.
C4_MissingFieldPolicy == C4_DefaultsApplied /\ C4_NoNullCount

(* ---- one row per triple ---- *)
Triple(r) == <<r.project, r.language, r.method>>
UniqueTriples(rows) ==
  \A i, j \in 1..Len(rows) : Triple(rows[i]) = Triple(rows[j]) => i = j

\* C5 as stated: no two rows of the returned table share project, language and method,
\* whatever the input files.
C5_OneRowPerTriple == df.kind = "table" => UniqueTriples(df.rows)

\* the files whose language blocks are walked, and the names and languages they resolve to
WalkedPaths ==
  {q \in JsonPathsOf(dir) : dir[q].parses /\ IsObj(dir[q].json)}
ProjectOf(q) == IF Has(dir[q].json, "name") THEN dir[q].json.o["name"] ELSE JStr(StripJson(q))
BlocksOf(q) ==
  IF Has(dir[q].json, "data") /\ dir[q].json.o["data"].t = "list"
  THEN dir[q].json.o["data"].l ELSE <<>>
DistinctProjects == \A p, q \in WalkedPaths : ProjectOf(p) = ProjectOf(q) => p = q
NoLanguageTwice ==
  \A q \in WalkedPaths :
    \A i, j \in 1..Len(BlocksOf(q)) :
      WrittenLanguage(BlocksOf(q)[i], "name", "Unknown")
        = WrittenLanguage(BlocksOf(q)[j], "name", "Unknown") => i = j

\* C5 amended: when the files resolve to pairwise distinct project names and no file
\* lists the same language name twice, no two rows share project, language and method.
C5_OneRowPerBlock ==
  (df.kind = "table" /\ DistinctProjects /\ NoLanguageTwice) => UniqueTriples(df.rows)

\* C5 witness: two files with different project names both list English, and the table
\* holds their rows.
C5_Witness ==
  /\ df.kind = "table" /\ DistinctProjects /\ NoLanguageTwice
  /\ Cardinality(WalkedPaths) = 2
  /\ \E i, j \in 1..Len(df.rows) :
       /\ df.rows[i].project # df.rows[j].project
       /\ df.rows[i].language = df.rows[j].language
       /\ df.rows[i].method = df.rows[j].method
  /\ \E i, j \in 1..Len(df.rows) :
       /\ df.rows[i].project = df.rows[j].project
       /\ df.rows[i].method # df.rows[j].method

(* ---- derived metrics ---- *)
IsCount(x) == x.k = "num" /\ x.den = 1 /\ x.num >= 0
NonNegativeCounts(r) == \A col \in CountColumns : IsCount(r[col])
Positive(x) == x.k = "num" /\ x.num > 0
\* a float cell that is a number above 0
PositiveFloat(x) == x.k = "num" /\ x # DZero
InPercentRange(x) == x.k = "num" /\ DLe(x, DInt(100))
RateColumns == {"approval_rate", "human_intervention_rate", "critical_edit_rate",
                "minor_edit_rate"}

\* C6: for every row built from non-negative integer counts, total_strings is
\* approved_without_edit + total_post_edited, and when total_strings > 0 the four
\* rates lie in [0, 100].
C6_TotalsAndRateRange ==
  df.kind = "table" =>
    \A i \in 1..Len(df.rows) :
      LET r == df.rows[i] IN
      NonNegativeCounts(r) =>
        /\ IsCount(r.total_strings) /\ IsCount(r.total_post_edited)
        /\ r.total_strings.num = r.approved_without_edit.num + r.total_post_edited.num
        /\ Positive(r.total_strings) => \A col \in RateColumns : InPercentRange(r[col])

\* C6 witness: a row with approved and post-edited strings, one of them in 'other'.
C6_Witness ==
  /\ df.kind = "table"
  /\ \E i \in 1..Len(df.rows) :
       /\ NonNegativeCounts(df.rows[i])
       /\ Positive(df.rows[i].approved_without_edit)
       /\ Positive(df.rows[i].post_edited_other)
       /\ Positive(df.rows[i].post_edited_0_5)
       /\ PositiveFloat(df.rows[i].approval_rate)
       /\ PositiveFloat(df.rows[i].human_intervention_rate)

ExampleDir == VectorDir(ExampleVec, Absent)
ExampleRates(r) ==
  /\ r.total_strings = FInt(100)
  /\ r.approval_rate = DInt(80)
  /\ r.human_intervention_rate = DInt(20)
  /\ r.critical_edit_rate = DInt(2)

\* C8 as stated: the export with counts 80, 10, 5, 3, 2 gives a single row with
\* approval_rate 80, human_intervention_rate 20, critical_edit_rate 2 and
\* quality_score 91.95.
C8_ExampleAsStated ==
  (dir = ExampleDir /\ Returned) =>
    /\ df.kind = "table" /\ Len(df.rows) = 1
    /\ ExampleRates(df.rows[1])
    /\ df.rows[1].quality_score = DDiv(9195, 100)

\* C8 amended: the same row has quality_score
\* (80*100 + 10*95 + 5*85 + 3*70 + 2*40)/100 = 9665/100 = 96.65 (the float 96.65).
C8_Example ==
  (dir = ExampleDir /\ Returned) =>
    /\ df.kind = "table" /\ Len(df.rows) = 1
    /\ ExampleRates(df.rows[1])
    /\ df.rows[1].quality_score = DDiv(9665, 100)

\* C8 witness: the example export has been loaded.
C8_Witness == dir = ExampleDir /\ pc = "loaded" /\ df.kind = "table"

\* the counts of row r, in the order approved, 0-5, 6-10, 11-15, other
CountsOf(r) ==
  <<r.approved_without_edit.num, r.post_edited_0_5.num, r.post_edited_6_10.num,
    r.post_edited_11_15.num, r.post_edited_other.num>>
WeightedSum(c) == 100 * c[1] + 95 * c[2] + 85 * c[3] + 70 * c[4] + 40 * c[5]

\* C9 as stated: for every row with total_strings > 0 each of the four rates is
\* 100*count/total and quality_score is the weighted sum over the total, each being
\* the float of that quotient.
C9_ReferenceFormulas ==
  df.kind = "table" =>
    \A i \in 1..Len(df.rows) :
      LET r == df.rows[i]
          c == CountsOf(r)
          t == r.total_strings.num
      IN
      (NonNegativeCounts(r) /\ Positive(r.total_strings)) =>
        /\ r.approval_rate = DDiv(100 * c[1], t)
        /\ r.human_intervention_rate = DDiv(100 * (c[2] + c[3] + c[4] + c[5]), t)
        /\ r.critical_edit_rate = DDiv(100 * c[5], t)
        /\ r.minor_edit_rate = DDiv(100 * c[2], t)
        /\ r.quality_score = DDiv(WeightedSum(c), t)

\* C9 amended: for every row with total_strings > 0 each of the four rates is the
\* float product (count/total)*100, which is the float of 100*count/total or a float
\* adjacent to it, and quality_score is exactly the float of the weighted sum over
\* the total.
C9_ReferenceFormulasRounded ==
  df.kind = "table" =>
    \A i \in 1..Len(df.rows) :
      LET r == df.rows[i]
          c == CountsOf(r)
          t == r.total_strings.num
      IN
      (NonNegativeCounts(r) /\ Positive(r.total_strings)) =>
        /\ r.approval_rate = DMulInt(DDiv(c[1], t), 100)
        /\ Near(r.approval_rate, DDiv(100 * c[1], t))
        /\ r.human_intervention_rate = DMulInt(DDiv(c[2] + c[3] + c[4] + c[5], t), 100)
        /\ Near(r.human_intervention_rate, DDiv(100 * (c[2] + c[3] + c[4] + c[5]), t))
        /\ r.critical_edit_rate = DMulInt(DDiv(c[5], t), 100)
        /\ Near(r.critical_edit_rate, DDiv(100 * c[5], t))
        /\ r.minor_edit_rate = DMulInt(DDiv(c[2], t), 100)
        /\ Near(r.minor_edit_rate, DDiv(100 * c[2], t))
        /\ r.quality_score = DDiv(WeightedSum(c), t)

\* C9 witness: a row with approved and 'other' strings whose 6-10 and 11-15 counts
\* differ and whose approval_rate is not the float of 100*approved/total.
C9_Witness ==
  /\ df.kind = "table"
  /\ \E i \in 1..Len(df.rows) :
       /\ NonNegativeCounts(df.rows[i]) /\ Positive(df.rows[i].total_strings)
       /\ Positive(df.rows[i].approved_without_edit)
       /\ Positive(df.rows[i].post_edited_other)
       /\ df.rows[i].post_edited_6_10 # df.rows[i].post_edited_11_15
       /\ df.rows[i].approval_rate
            # DDiv(100 * df.rows[i].approved_without_edit.num, df.rows[i].total_strings.num)

\* r2 has the total of r1 and is r1 with strings moved from other buckets into 'other'
MovedIntoOther(r1, r2) ==
  /\ NonNegativeCounts(r1) /\ NonNegativeCounts(r2)
  /\ Positive(r1.total_strings) /\ r2.total_strings = r1.total_strings
  /\ r2.post_edited_other.num >= r1.post_edited_other.num
  /\ \A col \in CountColumns \ {"post_edited_other"} : r2[col].num <= r1[col].num
LessOrEqual(x, y) == x.k = "num" /\ y.k = "num" /\ DLe(x, y)

\* C10: of two rows with the same positive total where the second is the first with
\* strings moved into the 'other' bucket, the second has the lower or equal
\* quality_score.
C10_QualityMonotone ==
  df.kind = "table" =>
    \A i, j \in 1..Len(df.rows) :
      MovedIntoOther(df.rows[i], df.rows[j]) =>
        LessOrEqual(df.rows[j].quality_score, df.rows[i].quality_score)

\* C10 witness: two rows, the second with strings moved into 'other' out of two
\* different buckets, and a strictly lower score.
C10_Witness ==
  /\ df.kind = "table" /\ Len(df.rows) = 2
  /\ MovedIntoOther(df.rows[1], df.rows[2])
  /\ df.rows[2].post_edited_other.num >= df.rows[1].post_edited_other.num + 2
  /\ df.rows[2].approved_without_edit.num < df.rows[1].approved_without_edit.num
  /\ df.rows[2].post_edited_11_15.num < df.rows[1].post_edited_11_15.num
  /\ ~LessOrEqual(df.rows[1].quality_score, df.rows[2].quality_score)

(* ---- risk score ---- *)
\* x and y are numbers at most n floats apart
RECURSIVE WithinUlps(_, _, _)
WithinUlps(x, y, n) ==
  /\ x.k = "num" /\ y.k = "num"
  /\ \/ x = y
     \/ /\ n > 0 /\ x # DZero /\ y # DZero
        /\ IF DLe(x, y) THEN WithinUlps(Succ(x), y, n - 1) ELSE WithinUlps(x, Succ(y), n - 1)

\* C11 as stated: for every row with non-negative counts and total_strings > 0,
\* risk_score is 3*critical_edit_rate + 2*(100*post_edited_11_15/total_strings)
\* + 1*(100*post_edited_6_10/total_strings), read either as the float of the exact
\* value or as that expression evaluated in floats, and lies in [0, 300].
C11_RiskScoreFormula ==
  df.kind = "table" =>
    \A i \in 1..Len(df.rows) :
      LET r == df.rows[i]
          c == CountsOf(r)
          t == r.total_strings.num
      IN
      (NonNegativeCounts(r) /\ Positive(r.total_strings)) =>
        /\ \/ r.risk_score = DDiv(300 * c[5] + 200 * c[4] + 100 * c[3], t)
           \/ r.risk_score = DAdd(DAdd(DMulInt(r.critical_edit_rate, 3),
                                      DMulInt(DDiv(100 * c[4], t), 2)),
                                 DMulInt(DDiv(100 * c[3], t), 1))
        /\ DLe(r.risk_score, DInt(300))

\* C11 amended: for every such row risk_score is the float sum
\* critical_edit_rate*3 + ((post_edited_11_15/total)*100)*2
\* + ((post_edited_6_10/total)*100)*1, rounded at every step; it is at most five
\* floats away (one for each rounding of its positive terms) from the float of
\* (300*other + 200*'11-15' + 100*'6-10')/total, and lies in [0, 300].
C11_RiskScoreRounded ==
  df.kind = "table" =>
    \A i \in 1..Len(df.rows) :
      LET r == df.rows[i]
          c == CountsOf(r)
          t == r.total_strings.num
      IN
      (NonNegativeCounts(r) /\ Positive(r.total_strings)) =>
        /\ r.critical_edit_rate = DMulInt(DDiv(c[5], t), 100)
        /\ r.risk_score =
             DAdd(DAdd(DMulInt(r.critical_edit_rate, 3),
                       DMulInt(DMulInt(DDiv(c[4], t), 100), 2)),
                  DMulInt(DMulInt(DDiv(c[3], t), 100), 1))
        /\ WithinUlps(r.risk_score, DDiv(300 * c[5] + 200 * c[4] + 100 * c[3], t), 5)
        /\ DLe(r.risk_score, DInt(300))

\* C11 witness: a row whose 6-10, 11-15 and 'other' counts are all positive and
\* whose 6-10 and 11-15 counts differ.
C11_Witness ==
  /\ df.kind = "table"
  /\ \E i \in 1..Len(df.rows) :
       /\ NonNegativeCounts(df.rows[i]) /\ Positive(df.rows[i].total_strings)
       /\ Positive(df.rows[i].post_edited_other)
       /\ Positive(df.rows[i].post_edited_6_10)
       /\ df.rows[i].post_edited_6_10 # df.rows[i].post_edited_11_15
       /\ PositiveFloat(df.rows[i].risk_score)
       /\ df.rows[i].risk_score
            # DDiv(300 * df.rows[i].post_edited_other.num
                     + 200 * df.rows[i].post_edited_11_15.num
                     + 100 * df.rows[i].post_edited_6_10.num, df.rows[i].total_strings.num)

(* ---- temporal records ---- *)
DayBuckets == {"0-5", "6-10", "11-15", "other"}
Extracted == temporal_df.kind = "table"
\* the temporal mapping of a row, empty when the row has none
Days(row) == IF IsObj(row.temporal_data) THEN row.temporal_data.o ELSE EmptyDict
DayApproved(stats) == Get(stats, "approvedWithoutEdit", JInt(0))
DayBucket(stats, b) == Get(Get(stats, "postEdited", EmptyObj), b, JInt(0))
WellFormedDay(stats) ==
  /\ IsObj(stats) /\ IsObj(Get(stats, "postEdited", EmptyObj))
  /\ IsInt(DayApproved(stats)) /\ \A b \in DayBuckets : IsInt(DayBucket(stats, b))
DayPostEdited(stats) ==
  DayBucket(stats, "0-5").n + DayBucket(stats, "6-10").n + DayBucket(stats, "11-15").n
    + DayBucket(stats, "other").n
DayTotal(stats) == DayApproved(stats).n + DayPostEdited(stats)
\* an entry with a parseable date, a well-formed day and a positive daily total
GoodEntry(date_str, stats) ==
  ParseDate(date_str) # 0 /\ WellFormedDay(stats) /\ DayTotal(stats) > 0
\* the good entries of the table, as (row index, date string) pairs
GoodEntries ==
  {e \in UNION {{<<i, k>> : k \in DOMAIN Days(df.rows[i])} : i \in 1..Len(df.rows)} :
     GoodEntry(e[2], Days(df.rows[e[1]])[e[2]])}
\* rec is the record of entry e: the row's labels, the entry's date and counts
RecordOf(rec, e) ==
  LET row == df.rows[e[1]]
      stats == Days(row)[e[2]]
  IN /\ rec.project = row.project /\ rec.language = row.language
     /\ rec.method = row.method
     /\ rec.date = ParseDate(e[2])
     /\ rec.approved_without_edit = DayApproved(stats).n
     /\ rec.total_strings = DayTotal(stats)
     /\ rec.critical_edits = DayBucket(stats, "other").n

\* C12: an entry with an unparseable date, a zero total or a malformed day is skipped
\* by itself: every good entry of every row has its record, carrying the row's
\* project, language and method, as many times as there are good entries that give
\* that record (once, when no other entry gives the same), and nothing else is in
\* the table.
C12_EntrySkippedAlone ==
  Extracted =>
    /\ \A e \in GoodEntries :
         Cardinality({j \in 1..Len(temporal_df.rows) : RecordOf(temporal_df.rows[j], e)})
           = Cardinality({g \in GoodEntries :
                            \A j \in 1..Len(temporal_df.rows) :
                              RecordOf(temporal_df.rows[j], e)
                                <=> RecordOf(temporal_df.rows[j], g)})
    /\ Len(temporal_df.rows) = Cardinality(GoodEntries)

\* C12 witness: a row whose mapping holds a malformed day, an unparseable date and,
\* written after them, one good entry, and the table holds exactly the record of the
\* good entry.
C12_Witness ==
  /\ Extracted /\ Len(temporal_df.rows) = 1
  /\ \E i \in 1..Len(df.rows) :
       LET d == Days(df.rows[i]) IN
       /\ DOMAIN d = {"2024-01-01", "not a date", "2024/01/05"}
       /\ ~WellFormedDay(d["2024-01-01"])
       /\ WellFormedDay(d["not a date"]) /\ DayTotal(d["not a date"]) > 0
       /\ GoodEntry("2024/01/05", d["2024/01/05"])
       /\ df.rows[i].temporal_data.keys = <<"2024-01-01", "not a date", "2024/01/05">>
       /\ RecordOf(temporal_df.rows[1], <<i, "2024/01/05">>)

\* C13: every record of the temporal table has total_strings > 0, the sum of the
\* approvedWithoutEdit and the four postEdited buckets of the day it comes from; a
\* day whose total is zero gives no record.
C13_PositiveDayTotal ==
  Extracted =>
    \A j \in 1..Len(temporal_df.rows) :
      /\ temporal_df.rows[j].total_strings > 0
      /\ \E e \in GoodEntries : RecordOf(temporal_df.rows[j], e)

\* C13 witness: a mapping with a well-formed day of total zero and a good day, and a
\* table holding the record of the good day alone.
C13_Witness ==
  /\ Extracted /\ Len(temporal_df.rows) = 1
  /\ \E i \in 1..Len(df.rows) :
       \E k1, k2 \in DOMAIN Days(df.rows[i]) :
         /\ ParseDate(k1) # 0 /\ WellFormedDay(Days(df.rows[i])[k1])
         /\ DayTotal(Days(df.rows[i])[k1]) = 0
         /\ <<i, k2>> \in GoodEntries
         /\ RecordOf(temporal_df.rows[1], <<i, k2>>)

\* rec carries the rates of entry e, each the float (count / total) * 100 of the day's
\* own counts, one float or less away from the correctly rounded 100 * count / total
RatesOf(rec, e) ==
  LET stats == Days(df.rows[e[1]])[e[2]] IN
  /\ Near(rec.approval_rate, DDiv(100 * DayApproved(stats).n, DayTotal(stats)))
  /\ Near(rec.intervention_rate, DDiv(100 * DayPostEdited(stats), DayTotal(stats)))
  /\ DLe(rec.approval_rate, DInt(100)) /\ DLe(rec.intervention_rate, DInt(100))

\* C14 as stated: every record has the approval and intervention rates of its own
\* day's counts, both in [0, 100] and summing to 100, and critical_edits is the day's
\* 'other' count.
C14_DayRatesSumTo100 ==
  Extracted =>
    \A j \in 1..Len(temporal_df.rows) :
      LET rec == temporal_df.rows[j] IN
      /\ \E e \in GoodEntries : RecordOf(rec, e) /\ RatesOf(rec, e)
      /\ DAdd(rec.approval_rate, rec.intervention_rate) = DInt(100)

\* C14 amended: the same, with the float sum of the two rates equal to 100 or to one
\* of the two floats next to 100.
C14_DayRates ==
  Extracted =>
    \A j \in 1..Len(temporal_df.rows) :
      LET rec == temporal_df.rows[j] IN
      /\ \E e \in GoodEntries : RecordOf(rec, e) /\ RatesOf(rec, e)
      /\ Near(DAdd(rec.approval_rate, rec.intervention_rate), DInt(100))

\* C14 witness: a record of a day with 1 approved string out of 3 in a row whose
\* cumulative counts are 1 approved out of 2; the two rates do not add up to 100.
C14_Witness ==
  /\ Extracted
  /\ \E j \in 1..Len(temporal_df.rows) : \E e \in GoodEntries :
       /\ RecordOf(temporal_df.rows[j], e)
       /\ temporal_df.rows[j].approved_without_edit = 1
       /\ temporal_df.rows[j].total_strings = 3
       /\ df.rows[e[1]].total_strings = FInt(2)
       /\ temporal_df.rows[j].approval_rate = DMulInt(DDiv(1, 3), 100)
       /\ DAdd(temporal_df.rows[j].approval_rate, temporal_df.rows[j].intervention_rate)
            # DInt(100)

(* ---- the temporal dashboard ---- *)
Called(f) == \E i \in 1..Len(calls) : calls[i] = f
NoTemporalDataWarning ==
  [msg |-> "No temporal data available for analysis", file |-> NoPath]
Warnings == {warnings[i] : i \in 1..Len(warnings)}

\* C15: when no row holds an entry with a parseable date and a positive daily total,
\* create_temporal_data returns an empty table (main goes on past it), and the temporal
\* dashboard, once called, has warned that no temporal data is available and has read
\* no column of the table.
C15_EmptyTemporalTable ==
  /\ (Returned /\ pc # "loaded" /\ ~NoData(df)) => Extracted
  /\ (Extracted /\ GoodEntries = {}) => temporal_df.rows = <<>>
  /\ (Called("temporal_insights") /\ temporal_df.rows = <<>>) =>
       /\ NoTemporalDataWarning \in Warnings
       /\ reads = {}

\* C15 witness: the tabs have been rendered over a table whose only temporal mapping
\* holds a malformed day, an unparseable date and a day of total zero.
C15_Witness ==
  /\ pc = "done" /\ Called("temporal_insights")
  /\ GoodEntries = {} /\ temporal_df.rows = <<>>
  /\ \E i \in 1..Len(df.rows) :
       LET d == Days(df.rows[i]) IN
       /\ DOMAIN d = {"2024-01-01", "not a date", "2024/01/05"}
       /\ ~WellFormedDay(d["2024-01-01"])
       /\ WellFormedDay(d["2024/01/05"]) /\ DayTotal(d["2024/01/05"]) = 0
  /\ NoTemporalDataWarning \in Warnings

(* ---- runs of the loader ---- *)
\* the records a run collects when glob lists the files in the given order
RECURSIVE Collected(_, _)
Collected(order, i) ==
  IF i > Len(order) THEN <<>>
  ELSE ProcessFileBody(order[i], dir[order[i]]).rows \o Collected(order, i + 1)
\* what a run of the loader returns for that order, "raised" when it raises
RunResult(order) ==
  LET records == Collected(order, 1) IN
  IF records = <<>> THEN None
  ELSE IF ArithmeticRaises(records) THEN [kind |-> "raised", rows |-> <<>>]
  ELSE Table(BuildTable(records))
\* two sequences hold the same rows the same number of times
SameRows(a, b) ==
  /\ Len(a) = Len(b)
  /\ \A i \in 1..Len(a) :
       Cardinality({j \in 1..Len(a) : a[j] = a[i]})
         = Cardinality({j \in 1..Len(b) : b[j] = a[i]})

\* one listing of the files, the same for every run over a directory
SortedListing == SetToSeq(JsonPathsOf(dir))

\* C16: whatever order glob lists the files in, the run returns a table with the rows
\* of the run over the sorted listing, field for field (or returns None, or raises, as
\* that run does): two runs over the same files, each with its own listing order,
\* return the same rows.
C16_SameRowsAnyOrder ==
  /\ pc = "loaded" =>
       /\ RunResult(SortedListing).kind = df.kind
       /\ SameRows(RunResult(SortedListing).rows, df.rows)
  /\ pc = "raised" => RunResult(SortedListing).kind = "raised"

\* C16 witness: two files that give different rows were listed in one order and the
\* table was returned; the other order gives the rows in another sequence.
C16_Witness ==
  /\ pc = "loaded" /\ df.kind = "table" /\ Len(json_files) = 2
  /\ SortedListing # json_files
  /\ RunResult(SortedListing).kind = "table"
  /\ RunResult(SortedListing).rows # df.rows
  /\ SameRows(RunResult(SortedListing).rows, df.rows)

(***************************************************************************)
(* C17: memoization of the loader.                                         *)
(***************************************************************************)
\* what the body of load_crowdin_data returns over the files as they are now
Recomputed == RunResult(SortedListing)

\* C17: whenever load_crowdin_data has just returned to main, what it returned is the
\* result computed from the files as they are at that call: None when they yield no
\* record, else a table of the rows they yield, also after the files changed since
\* an earlier call of the same process.
C17_RecomputedAfterChange ==
  pc = "loaded" =>
    /\ df.kind = Recomputed.kind
    /\ SameRows(df.rows, Recomputed.rows)

(***************************************************************************)
(* C18: the dashboards and the tables they receive.                        *)
(***************************************************************************)
\* C18: the step of main that renders the six tabs leaves the table the loader
\* returned, the filtered table and the temporal table as they were: no dashboard
\* adds, removes or changes a row or a column of a table it receives.
C18_TablesReadOnly ==
  [][pc = "tabs" => /\ df' = df
                    /\ filtered_df' = filtered_df
                    /\ temporal_df' = temporal_df]_vars

\* the tabs were rendered over more than SeasonalMinRecords temporal records, the
\* volume chart was drawn, and every record has gained the two seasonal columns
SeasonalColumnsAdded ==
  /\ pc = "done" /\ Called("business_impact")
  /\ Len(temporal_df.rows) > SeasonalMinRecords
  /\ \A i \in 1..Len(temporal_df.rows) :
       {"day_of_week", "month"} \subseteq DOMAIN temporal_df.rows[i]
\* the volume chart raised: the temporal table is as it was and the last dashboard
\* was not called
TrendlineRaised ==
  /\ pc = "tabs_raised"
  /\ Called("temporal_insights") /\ ~Called("business_impact")
  /\ Len(temporal_df.rows) > SeasonalMinRecords
  /\ \A i \in 1..Len(temporal_df.rows) : "month" \notin DOMAIN temporal_df.rows[i]

(***************************************************************************)
(* C19: malformed field values.                                            *)
(***************************************************************************)
\* C19: whatever the JSON types of the field values in the documents that parse, no
\* run of main ends in an exception raised out of load_crowdin_data or
\* create_temporal_data.
C19_NeverRaises == pc # "raised"

(***************************************************************************)
(* C20: the denominators of risk_score.                                    *)
(***************************************************************************)
\* C20: every row of the table load_crowdin_data returns has total_strings > 0 and a
\* risk_score that is a finite number.
C20_PositiveTotalFiniteRisk ==
  df.kind = "table" =>
    \A i \in 1..Len(df.rows) :
      /\ Positive(df.rows[i].total_strings)
      /\ df.rows[i].risk_score.k = "num"

(***************************************************************************)
(* C21: a file whose processing raises after some of its blocks.           *)
(***************************************************************************)
\* the records of the files of order[i..] whose try block ran to its end
RECURSIVE RowsOfFilesProcessed(_, _)
RowsOfFilesProcessed(order, i) ==
  IF i > Len(order) THEN <<>>
  ELSE LET r == ProcessFileBody(order[i], dir[order[i]]) IN
       (IF r.ok THEN r.rows ELSE <<>>) \o RowsOfFilesProcessed(order, i + 1)

\* C21: a file is skipped as a whole: the table load_crowdin_data returns holds the
\* rows of the files whose processing did not raise and no row of a file whose
\* processing raised, at JSON parsing or later.
C21_FileSkippedWhole ==
  (pc = "loaded" /\ df.kind = "table") =>
    df.rows = BuildTable(RowsOfFilesProcessed(json_files, 1))

(***************************************************************************)
(* C22: what main hands to the dashboards.                                 *)
(***************************************************************************)
DashboardCalled == \E i \in 1..Len(Dashboards) : Called(Dashboards[i])
NoMatchWarning == [msg |-> "No data matches the selected filters", file |-> NoPath]

\* C22: when main is about to render the tabs, and after a dashboard function was
\* called, the filtered table is not empty, every row of it has total_strings > 0 and
\* has its project, language and method among the values selected in the sidebar;
\* when the filtered table is empty main has warned and has called no dashboard.
C22_DashboardsGetFilteredRows ==
  /\ (pc = "tabs" \/ DashboardCalled) =>
       /\ filtered_df.kind = "table"
       /\ filtered_df.rows # <<>>
       /\ \A i \in 1..Len(filtered_df.rows) :
            LET r == filtered_df.rows[i] IN
            /\ Positive(r.total_strings)
            /\ r.project \in selection.projects
            /\ r.language \in selection.languages
            /\ r.method \in selection.methods
  /\ filtered_df = Table(<<>>) =>
       /\ pc = "done"
       /\ ~DashboardCalled
       /\ NoMatchWarning \in Warnings

\* C22 witness: the user narrowed two of the three multiselects and the six dashboards
\* were called with fewer rows than the loader returned: one row was left out for its
\* total of 0 although its project, language and method are selected, another for a
\* method that is not selected, a third for its project or language although its
\* method is selected.
C22_Witness ==
  /\ pc = "done" /\ Called("business_impact")
  /\ \E i, j, k \in 1..Len(df.rows) :
       /\ ~Positive(df.rows[i].total_strings)
       /\ df.rows[i].project \in selection.projects
       /\ df.rows[i].language \in selection.languages
       /\ df.rows[i].method \in selection.methods
       /\ Positive(df.rows[j].total_strings)
       /\ df.rows[j].method \notin selection.methods
       /\ Positive(df.rows[k].total_strings)
       /\ df.rows[k].method \in selection.methods
       /\ (df.rows[k].project \notin selection.projects
             \/ df.rows[k].language \notin selection.languages)

(***************************************************************************)
(* C23: the temporal table next to the filtered table.                     *)
(***************************************************************************)
\* C23: when main is about to render the tabs, and after a dashboard function was
\* called, every record of the temporal table has the project, language and method
\* of some row of the filtered table passed with it.
C23_TemporalFollowsSelection ==
  (pc = "tabs" \/ DashboardCalled) =>
    \A i \in 1..Len(temporal_df.rows) :
      \E j \in 1..Len(filtered_df.rows) :
        Triple(temporal_df.rows[i]) = Triple(filtered_df.rows[j])

(***************************************************************************)
(* C24: approval_rate + human_intervention_rate and the range of           *)
(* quality_score, in the float64 arithmetic of the columns.                *)
(***************************************************************************)
\* approval_rate + human_intervention_rate of row r, added as floats
RateSum(r) == DAdd(r.approval_rate, r.human_intervention_rate)
QualityOf(r) == r.quality_score
QualityInRange(r) == DLe(DInt(40), QualityOf(r)) /\ DLe(QualityOf(r), DInt(100))

\* C24 as stated: for every row of the table the loader returns whose counts are
\* non-negative, approval_rate + human_intervention_rate is exactly 100 when
\* total_strings > 0 and exactly 0 when total_strings = 0, and quality_score lies in
\* [40, 100] when total_strings > 0.
C24_RatesSumTo100 ==
  (pc = "loaded" /\ df.kind = "table") =>
    \A i \in 1..Len(df.rows) :
      LET r == df.rows[i] IN
      NonNegativeCounts(r) =>
        IF r.total_strings.num > 0
        THEN RateSum(r) = DInt(100) /\ QualityInRange(r)
        ELSE RateSum(r) = DZero

\* C24, amended: for every such row approval_rate + human_intervention_rate is 100 or
\* one of the two floats next to 100 when total_strings > 0 and exactly 0 when
\* total_strings = 0, and quality_score lies in [40, 100] when total_strings > 0.
C24_RatesSumNear100 ==
  (pc = "loaded" /\ df.kind = "table") =>
    \A i \in 1..Len(df.rows) :
      LET r == df.rows[i] IN
      NonNegativeCounts(r) =>
        IF r.total_strings.num > 0
        THEN Near(RateSum(r), DInt(100)) /\ QualityInRange(r)
        ELSE RateSum(r) = DZero

\* C24 witness: the loader returned a row with 1 approved string of 3, whose two
\* rates add up to the float below 100.
C24_Witness ==
  /\ pc = "loaded" /\ df.kind = "table"
  /\ \E i \in 1..Len(df.rows) :
       LET r == df.rows[i] IN
       /\ NonNegativeCounts(r)
       /\ r.approved_without_edit.num = 1
       /\ r.total_strings.num = 3
       /\ Succ(RateSum(r)) = DInt(100)

====
